---- MODULE Spec2Model ----
(***************************************************************************)
(* Verification model of the z5d prime predictor repository:               *)
(*   - z5d_predictor.c   closed-form predictor + refine_to_prime           *)
(*   - prime_generator.c sequential wheel-30 scanner, primality pipeline,  *)
(*                       Mersenne / Lucas-Lehmer detector                  *)
(*   - z5d_mersenne.c    wave-knob tuning controller                       *)
(*                                                                         *)
(* GMP integers (mpz_t) that may exceed 31 bits are held as little-endian  *)
(* sequences of base-10^6 limbs ("Big"); the scanner, the Mersenne         *)
(* detector and the wave-knob controller are exercised on values that fit  *)
(* a machine integer and are held as integers.                             *)
(***************************************************************************)
EXTENDS Integers, Sequences, FiniteSets, TLC

(* ------------------------------------------------------------------ *)
(* Bounds of the model                                                  *)
(* ------------------------------------------------------------------ *)
MaxIndex == 12          \* indices 0..MaxIndex are fed to the predictor besides the KNOWN grid
MaxStart == 50          \* --start values 0..MaxStart for the prime scanner
MaxCount == 3           \* --count values 0..MaxCount for the prime scanner
MaxMersenneExp == 14    \* Mersenne detector inputs range over 0 .. 2^MaxMersenneExp
LongRunIters == 9        \* --max-iters of the long auto-tune run (more than the 8 residues of wheel 30)
MaxSnap == 40           \* snap_to_6k_pm1 inputs 0..MaxSnap, besides values around 10^6
MaxTrial == 200         \* trial-division inputs 2..MaxTrial, besides larger products
MaxCalls == 3           \* library calls in one client session
MaxIters == 3           \* --max-iters values 0..MaxIters for the wave-knob controller

(* ------------------------------------------------------------------ *)
(* Arbitrary-precision naturals (GMP mpz_t)                             *)
(* ------------------------------------------------------------------ *)
LimbBase == 1000000

BigZero == << >>

\* the element of a one-element set; {f(x) : x \in {e}} evaluates e once and
\* hands its value to f, where an operator argument would be re-evaluated at
\* each of its uses
Only(S) == CHOOSE r \in S : TRUE

RECURSIVE BigOf(_)
BigOf(i) == IF i = 0 THEN << >> ELSE <<i % LimbBase>> \o BigOf(i \div LimbBase)

\* drop zero limbs at the most significant end
RECURSIVE BigNorm(_)
BigNorm(b) ==
    IF b = << >> THEN << >>
    ELSE IF b[Len(b)] = 0 THEN BigNorm(SubSeq(b, 1, Len(b) - 1))
    ELSE b

\* mpz_add_ui(b, b, k)
RECURSIVE BigAddUi(_, _)
BigAddUi(b, k) ==
    IF k = 0 THEN b
    ELSE IF b = << >> THEN BigOf(k)
    ELSE LET s == b[1] + k
         IN  <<s % LimbBase>> \o BigAddUi(Tail(b), s \div LimbBase)

\* mpz_sub_ui(b, b, k) for b >= k
RECURSIVE BigSubRaw(_, _)
BigSubRaw(b, k) ==
    IF k = 0 THEN b
    ELSE LET d == b[1] - k
         IN  IF d >= 0 THEN <<d>> \o Tail(b)
             ELSE <<d + LimbBase>> \o BigSubRaw(Tail(b), 1)

BigSubUi(b, k) == BigNorm(BigSubRaw(b, k))

\* mpz_mul_ui(b, b, m) followed by mpz_add_ui(.., c), for m, c < 2000
RECURSIVE BigMulAddUi(_, _, _)
BigMulAddUi(b, m, c) ==
    IF b = << >> THEN BigOf(c)
    ELSE LET s == b[1] * m + c
         IN  <<s % LimbBase>> \o BigMulAddUi(Tail(b), m, s \div LimbBase)

\* mpz_fdiv_ui(b, m): remainder of b modulo a small m
RECURSIVE BigFdivUi(_, _)
BigFdivUi(b, m) ==
    IF b = << >> THEN 0
    ELSE (BigFdivUi(Tail(b), m) * (LimbBase % m) + b[1]) % m

\* floor(b / 2)
RECURSIVE BigHalfRaw(_, _)
BigHalfRaw(b, i) ==
    IF i > Len(b) THEN << >>
    ELSE LET carry == IF i < Len(b) THEN (b[i + 1] % 2) * (LimbBase \div 2) ELSE 0
         IN  <<b[i] \div 2 + carry>> \o BigHalfRaw(b, i + 1)

BigHalf(b) == BigNorm(BigHalfRaw(b, 1))

\* mpz_cmp_ui(b, k): -1, 0, +1 for k < LimbBase
BigCmpUi(b, k) ==
    IF Len(b) > 1 THEN 1
    ELSE LET v == IF b = << >> THEN 0 ELSE b[1]
         IN  IF v < k THEN -1 ELSE IF v = k THEN 0 ELSE 1

\* mpz_cmp(a, b) for normalised a, b
RECURSIVE BigCmpFrom(_, _, _)
BigCmpFrom(a, b, i) ==
    IF i = 0 THEN 0
    ELSE IF a[i] < b[i] THEN -1
    ELSE IF a[i] > b[i] THEN 1
    ELSE BigCmpFrom(a, b, i - 1)

BigCmp(a, b) ==
    IF Len(a) < Len(b) THEN -1
    ELSE IF Len(a) > Len(b) THEN 1
    ELSE BigCmpFrom(a, b, Len(a))

\* mpz_even_p
BigEven(b) == b = << >> \/ b[1] % 2 = 0

\* mpz_sizeinbase(b, 2) for b > 0
RECURSIVE BigBits(_)
BigBits(b) ==
    IF b = << >> THEN 0
    ELSE IF Len(b) = 1 THEN Cardinality({j \in 0..19 : 2 ^ j <= b[1]})
    ELSE Only({1 + BigBits(h) : h \in {BigHalf(b)}})

\* value of a decimal digit character
CharDigit(c) ==
    CASE c = "0" -> 0 [] c = "1" -> 1 [] c = "2" -> 2 [] c = "3" -> 3
      [] c = "4" -> 4 [] c = "5" -> 5 [] c = "6" -> 6 [] c = "7" -> 7
      [] c = "8" -> 8 [] c = "9" -> 9

\* the k-th decimal digit of s counted from its end (k >= 1), 0 beyond its start
DigitFromEnd(s, k) == IF k <= Len(s) THEN CharDigit(s[Len(s) - k + 1]) ELSE 0

\* mpz_set_str(out, s, 10): s is the string as its sequence of characters;
\* limb j collects the digits 6j-5 .. 6j counted from the end
MpzSetStr(s) ==
    BigNorm([j \in 1..((Len(s) + 5) \div 6) |->
                DigitFromEnd(s, 6 * j - 5) + 10 * DigitFromEnd(s, 6 * j - 4)
                + 100 * DigitFromEnd(s, 6 * j - 3) + 1000 * DigitFromEnd(s, 6 * j - 2)
                + 10000 * DigitFromEnd(s, 6 * j - 1) + 100000 * DigitFromEnd(s, 6 * j)])


(* ------------------------------------------------------------------ *)
(* Machine-integer helpers                                              *)
(* ------------------------------------------------------------------ *)
Abs(a) == IF a < 0 THEN -a ELSE a
Sgn(a) == IF a < 0 THEN -1 ELSE IF a = 0 THEN 0 ELSE 1

\* an upper bound of the square root of v < 10^8
SqrtBound(v) ==
    IF v < 100 THEN 10 ELSE IF v < 10000 THEN 100 ELSE IF v < 1000000 THEN 1000 ELSE 10000

\* exact primality of a machine integer (trial division)
IsPrime(v) == v >= 2 /\ \A d \in 2..SqrtBound(v) : d * d > v \/ v % d # 0

(* ------------------------------------------------------------------ *)
(* GMP mpz_probab_prime_p (external library)                            *)
(* The test is taken as exact.  Below 10^6 it is computed by trial      *)
(* division; above, the model only ever tests the values of the KNOWN   *)
(* grid and the integers of the prime gap (461690510011, 461690510543), *)
(* whose primes are tabulated here.                                     *)
(* ------------------------------------------------------------------ *)
GapLow == <<510011, 461690>>       \* 461690510011, prime
GapHigh == <<510543, 461690>>      \* 461690510543, the next prime (gap 532)

LargePrimes ==
    { GapLow, GapHigh,
      <<299709, 1>>, <<485863, 15>>, <<424673, 179>>, <<74743, 2038>>,
      <<763489, 22801>>, <<800623, 252097>>, <<302517, 760727, 2>>,
      <<275833, 996224, 29>>, <<946331, 780508, 323>>, <<524527, 385758, 3475>>,
      <<65437, 508045, 37124>>, <<735329, 913903, 394906>>,
      <<695669, 581467, 185296, 4>>, <<169331, 234832, 211790, 44>> }

\* mpz_probab_prime_p(n, reps) > 0
MpzProbabPrime(b, reps) ==
    IF Len(b) <= 1 THEN IsPrime(IF b = << >> THEN 0 ELSE b[1])
    ELSE b \in LargePrimes

\* the large values on which the tabulated answers are complete
InOracleDomain(b) ==
    \/ Len(b) <= 1
    \/ b \in LargePrimes
    \/ (BigCmp(b, GapLow) >= 0 /\ BigCmp(b, GapHigh) <= 0)

(* ------------------------------------------------------------------ *)
(* MPFR arithmetic of the closed-form predictor, in fixed point with    *)
(* six decimal places (FxOne = 1.0).                                    *)
(* ------------------------------------------------------------------ *)
FxOne == 1000000
FxHalfScale == 1000

FxMulAbs(a, b) ==
    LET a1 == a \div FxHalfScale  a0 == a % FxHalfScale
        b1 == b \div FxHalfScale  b0 == b % FxHalfScale
    IN  a1 * b1 + (a1 * b0 + a0 * b1) \div FxHalfScale + (a0 * b0) \div FxOne

\* mpfr_mul
FxMul(a, b) == Sgn(a) * Sgn(b) * FxMulAbs(Abs(a), Abs(b))

FxPow10(d) == 10 ^ d

RECURSIVE FxLongDiv(_, _, _)
FxLongDiv(r, b, digits) ==
    IF digits = 0 THEN 0
    ELSE LET r10 == r * 10
         IN  (r10 \div b) * FxPow10(digits - 1) + FxLongDiv(r10 % b, b, digits - 1)

FxDivAbs(a, b) == (a \div b) * FxOne + FxLongDiv(a % b, b, 6)

\* mpfr_div
FxDiv(a, b) == Sgn(a) * Sgn(b) * FxDivAbs(Abs(a), Abs(b))

FxLn2 == 693147      \* ln 2

\* z + z^3/3 + z^5/5 + ... (atanh z), terms up to z^15
FxAtanhSeries(zpow, z2, k, acc) ==
    LET Loop[zp \in Int, j \in Nat, a \in Int] ==
            IF j > 15 \/ zp = 0 THEN a
            ELSE Loop[FxMul(zp, z2), j + 2, a + zp \div j]
    IN  Loop[zpow, k, acc]

\* ln x for x > 0: x = m * 2^e with m in [1,2), ln x = e ln 2 + 2 atanh((m-1)/(m+1))
FxLogNorm(x, e) ==
    LET Loop[m \in Nat, ex \in Int] ==
            IF m >= 2 * FxOne THEN Loop[m \div 2, ex + 1]
            ELSE IF m < FxOne THEN Loop[m * 2, ex - 1]
            ELSE LET z == FxDiv(m - FxOne, m + FxOne)
                 IN  ex * FxLn2 + 2 * FxAtanhSeries(z, FxMul(z, z), 1, 0)
    IN  Loop[x, e]

\* mpfr_log (argument > 0)
FxLog(x) == FxLogNorm(x, 0)

\* exp y, the power series: terms y^k / k! until they vanish
FxExpSeries(y, term, k, acc) ==
    LET Loop[tm \in Int, j \in Nat, a \in Int] ==
            IF j > 24 \/ tm = 0 THEN a
            ELSE Loop[FxMul(tm, y) \div j, j + 1, a + tm]
    IN  Loop[term, k, acc]

FxExp(y) == FxExpSeries(y, FxOne, 1, 0)

\* mpfr_round: nearest integer, ties away from zero
FxRound(a) ==
    IF a >= 0 THEN (a + FxOne \div 2) \div FxOne
    ELSE -((-a + FxOne \div 2) \div FxOne)

(* ------------------------------------------------------------------ *)
(* z5d_predictor.c                                                      *)
(* ------------------------------------------------------------------ *)
Z5D_C_CAL == -2470             \* -0.00247
Z5D_KAPPA_STAR == 44490        \* 0.04449
Z5D_E_FOURTH == 54598150       \* e^4 = 54.598150033144236

SMALL_PRIMES ==
    <<3, 5, 7, 11, 13, 17, 19, 23, 29, 31, 37, 41, 43, 47, 53, 59, 61, 67, 71, 73, 79, 83, 89, 97>>

\* snap to the nearest 6k+-1 in the given direction
\* a snap whose forward table mirrors the backward one
snap_to_6k_pm1_mirrored(n, dir) ==
    LET r == BigFdivUi(n, 6)
        delta == IF r = 0 THEN 1 ELSE IF r = 2 THEN 1 ELSE IF r = 3 THEN 2
                 ELSE IF r = 4 THEN 3 ELSE 0
    IN  IF delta > 0
        THEN (IF dir < 0 THEN BigSubUi(n, delta) ELSE BigAddUi(n, delta))
        ELSE n

snap_to_6k_pm1(n, dir) ==
    LET r == BigFdivUi(n, 6)
        delta == IF dir < 0
                 THEN (IF r = 0 THEN 1 ELSE IF r = 2 THEN 1 ELSE IF r = 3 THEN 2
                       ELSE IF r = 4 THEN 3 ELSE 0)
                 ELSE (IF r = 0 THEN 1 ELSE IF r = 2 THEN 3 ELSE IF r = 3 THEN 2
                       ELSE IF r = 4 THEN 1 ELSE 0)
    IN  IF delta > 0
        THEN (IF dir < 0 THEN BigSubUi(n, delta) ELSE BigAddUi(n, delta))
        ELSE n

\* small-prime presieve: TRUE when a prime up to 97 properly divides n; the
\* loop returns 0 at the first entry equal to n and 1 at the first entry dividing n
divisible_by_small_prime(n) ==
    \E i \in 1..Len(SMALL_PRIMES) :
        /\ BigFdivUi(n, SMALL_PRIMES[i]) = 0
        /\ \A j \in 1..i : BigCmpUi(n, SMALL_PRIMES[j]) # 0

\* lines 136-153: the two correction terms added to the PNT approximation
Z5dCorrected(pnt, ln_pnt) ==
    LET d_term == IF pnt > 0 /\ ln_pnt > 0
                  THEN LET q == FxDiv(ln_pnt, Z5D_E_FOURTH)
                       IN  FxMul(FxMul(FxMul(q, q), pnt), Z5D_C_CAL)
                  ELSE 0
        e_term == IF pnt > 0
                  THEN FxMul(FxMul(FxExp(-(ln_pnt \div 3)), pnt), Z5D_KAPPA_STAR)
                  ELSE 0
        res == pnt + d_term + e_term
    IN  FxRound(IF res < 0 THEN pnt ELSE res)

\* calibrated closed form for an index k >= 2 held as a machine integer;
\* the result is the rounded estimate (an integer, possibly negative).
\* mpfr_log of a non-positive value is NaN / -Inf and compares "not > 0"
z5d_predict_mpfr(k) ==
    Only({Only({Only({Only({Z5dCorrected(pnt, ln_pnt) :
                            ln_pnt \in {IF pnt > 0 THEN FxLog(pnt) ELSE 0}}) :
                      pnt \in {k * (ln_k + ln_ln_k - FxOne
                                    + FxDiv(ln_ln_k - 2 * FxOne, ln_k))}}) :
                ln_ln_k \in {FxLog(ln_k)}}) :
          ln_k \in {FxLog(k * FxOne)}})

\* an integer-valued mpfr_t: sign and magnitude
MpfrOfInt(i) == [neg |-> i < 0, mag |-> BigOf(Abs(i))]

\* an mpfr_t of the approximate entry points: a finite value, or NaN (v = 0),
\* or an infinity (v = its sign)
MpfrNaN == [finite |-> FALSE, v |-> 0]
MpfrNegInf == [finite |-> FALSE, v |-> -1]
MpfrNum(i) == [finite |-> TRUE, v |-> i]

Z5D_DEFAULT_PRECISION == 320

\* z5d_result_init (lines 73-79): mpfr_init2 leaves NaN
z5d_result_init ==
    [predicted_prime |-> MpfrNaN, error |-> MpfrNaN, iterations |-> 0, converged |-> 0]

\* z5d_predict_mpfr on mpfr_set_ui(k_mp, n) for an index n >= 1.  For n = 1
\* ln k = 0 and ln ln k = -Inf: pnt, the clamped sum and its rounding are -Inf
PredictedPrime(nn) ==
    IF nn = 1 THEN MpfrNegInf ELSE MpfrNum(z5d_predict_mpfr(nn))

\* a prediction that refuses to run before z5d_init was called
z5d_predict_nth_prime_ex_needs_init(res, nn, precision, initialized) ==
    IF nn = 0 \/ initialized = 0
    THEN [ret |-> -1, result |-> res, z5d_initialized |-> initialized]
    ELSE [ret |-> 0,
          result |-> [predicted_prime |-> PredictedPrime(nn), error |-> MpfrNum(0),
                      iterations |-> 1, converged |-> 1],
          z5d_initialized |-> 1]

\* a prediction that initialises the library and resets the result record
\* before it checks its argument
z5d_predict_nth_prime_ex_init_first(res, nn, precision, initialized) ==
    IF nn = 0
    THEN [ret |-> -1, result |-> z5d_result_init, z5d_initialized |-> 1]
    ELSE [ret |-> 0,
          result |-> [predicted_prime |-> PredictedPrime(nn), error |-> MpfrNum(0),
                      iterations |-> 1, converged |-> 1],
          z5d_initialized |-> 1]

\* z5d_predict_nth_prime_ex (lines 239-258) on the caller's record res with
\* the static flag `initialized`: the return code, the record and the flag
\* afterwards.  Every temporary has config->precision, nothing is read from
\* the static state or the default precision; elapsed_ms is not modelled
z5d_predict_nth_prime_ex(res, nn, precision, initialized) ==
    IF nn = 0
    THEN [ret |-> -1, result |-> res, z5d_initialized |-> initialized]
    ELSE [ret |-> 0,
          result |-> [predicted_prime |-> PredictedPrime(nn), error |-> MpfrNum(0),
                      iterations |-> 1, converged |-> 1],
          z5d_initialized |-> 1]

\* z5d_predict_nth_prime (lines 231-237): the default configuration
z5d_predict_nth_prime(res, nn, initialized) ==
    z5d_predict_nth_prime_ex(res, nn, Z5D_DEFAULT_PRECISION, initialized)

\* a refinement that accepts after the 25-round test alone
CheckCandidateOneTest(c) ==
    LET sieve == IF divisible_by_small_prime(c) THEN "fail" ELSE "pass"
        pp25 == IF sieve # "pass" THEN "skipped"
                ELSE IF MpzProbabPrime(c, 25) THEN "pass" ELSE "fail"
    IN  [v |-> c, sieve |-> sieve, pp25 |-> pp25, pp50 |-> "skipped",
         accept |-> sieve = "pass" /\ pp25 = "pass"]

\* the three checks refine_to_prime applies to a candidate, with C's
\* short-circuit evaluation: a check after a failed one is not made
CheckCandidate(c) ==
    LET sieve == IF divisible_by_small_prime(c) THEN "fail" ELSE "pass"
        pp25 == IF sieve # "pass" THEN "skipped"
                ELSE IF MpzProbabPrime(c, 25) THEN "pass" ELSE "fail"
        pp50 == IF pp25 # "pass" THEN "skipped"
                ELSE IF MpzProbabPrime(c, 50) THEN "pass" ELSE "fail"
    IN  [v |-> c, sieve |-> sieve, pp25 |-> pp25, pp50 |-> pp50,
         accept |-> sieve = "pass" /\ pp25 = "pass" /\ pp50 = "pass"]

\* lines 162-168: round, clamp to >= 3, force odd, snap forward
RefineStart(x) ==
    LET c0 == IF x.neg \/ BigCmpUi(x.mag, 3) < 0 THEN BigOf(3) ELSE x.mag
        c1 == IF BigEven(c0) THEN BigAddUi(c0, 1) ELSE c0
    IN  snap_to_6k_pm1(c1, 1)

MinBaseWindow == 256

\* lines 180-184: max(256, ceil(4 ln x0)).  4 ln x0 < 56 per limb of x0, so
\* the minimum applies to every x0 of at most four limbs (x0 < 10^24)
BaseWindow(x) ==
    IF 56 * Len(x.mag) <= MinBaseWindow THEN MinBaseWindow ELSE 56 * Len(x.mag)

\* one candidate of the windowed symmetric search (lines 188-199);
\* << >>-tagged "skip" when the iteration is abandoned by continue
LocalCandidate(c, st, d) ==
    IF d < 0 /\ BigCmpUi(c, st) <= 0 THEN [skip |-> TRUE, t |-> BigZero]
    ELSE LET t0 == IF d > 0 THEN BigAddUi(c, st) ELSE BigSubUi(c, st)
             t1 == IF BigEven(t0)
                   THEN (IF d > 0 THEN BigAddUi(t0, 1) ELSE BigSubUi(t0, 1))
                   ELSE t0
             t2 == snap_to_6k_pm1(t1, d)
         IN  [skip |-> BigCmpUi(t2, 3) < 0, t |-> t2]

\* a forward scan that advances by 4 before snapping
ForwardAdvanceByFour(tt) == snap_to_6k_pm1(BigAddUi(tt, 4), 1)

\* lines 217-218: the next candidate of the forward scan
ForwardAdvance(tt) == snap_to_6k_pm1(BigAddUi(tt, 2), 1)

\* the fast-path grid of z5d_predict_nth_prime_mpz: index, decimal string
KNOWN ==
    << [n |-> BigOf(1), p_str |-> <<"2">>],
       [n |-> BigOf(10), p_str |-> <<"2","9">>],
       [n |-> BigOf(100), p_str |-> <<"5","4","1">>],
       [n |-> BigOf(1000), p_str |-> <<"7","9","1","9">>],
       [n |-> BigOf(10000), p_str |-> <<"1","0","4","7","2","9">>],
       [n |-> BigOf(100000), p_str |-> <<"1","2","9","9","7","0","9">>],
       [n |-> <<0, 1>>, p_str |-> <<"1","5","4","8","5","8","6","3">>],
       [n |-> <<0, 10>>, p_str |-> <<"1","7","9","4","2","4","6","7","3">>],
       [n |-> <<0, 100>>, p_str |-> <<"2","0","3","8","0","7","4","7","4","3">>],
       [n |-> <<0, 1000>>, p_str |-> <<"2","2","8","0","1","7","6","3","4","8","9">>],
       [n |-> <<0, 10000>>, p_str |-> <<"2","5","2","0","9","7","8","0","0","6","2","3">>],
       [n |-> <<0, 100000>>, p_str |-> <<"2","7","6","0","7","2","7","3","0","2","5","1","7">>],
       [n |-> <<0, 0, 1>>, p_str |-> <<"2","9","9","9","6","2","2","4","2","7","5","8","3","3">>],
       [n |-> <<0, 0, 10>>, p_str |-> <<"3","2","3","7","8","0","5","0","8","9","4","6","3","3","1">>],
       [n |-> <<0, 0, 100>>, p_str |-> <<"3","4","7","5","3","8","5","7","5","8","5","2","4","5","2","7">>],
       [n |-> <<0, 0, 1000>>, p_str |-> <<"3","7","1","2","4","5","0","8","0","4","5","0","6","5","4","3","7">>],
       [n |-> <<0, 0, 10000>>, p_str |-> <<"3","9","4","9","0","6","9","1","3","9","0","3","7","3","5","3","2","9">>],
       [n |-> <<0, 0, 100000>>, p_str |-> <<"4","1","8","5","2","9","6","5","8","1","4","6","7","6","9","5","6","6","9">>],
       [n |-> <<0, 0, 0, 1>>, p_str |-> <<"4","4","2","1","1","7","9","0","2","3","4","8","3","2","1","6","9","3","3","1">>] >>

\* a lookup that reads the entry after the matching one
KnownIndexOffByOne(nn) ==
    IF \E i \in 1..Len(KNOWN) : KNOWN[i].n = nn
    THEN ((CHOOSE i \in 1..Len(KNOWN) : KNOWN[i].n = nn) % Len(KNOWN)) + 1
    ELSE 0

\* index of the first KNOWN entry for n, 0 when there is none (lines 287-292)
KnownIndex(nn) ==
    IF \E i \in 1..Len(KNOWN) : KNOWN[i].n = nn
    THEN CHOOSE i \in 1..Len(KNOWN) :
             KNOWN[i].n = nn /\ \A j \in 1..(i - 1) : KNOWN[j].n # nn
    ELSE 0


(* ------------------------------------------------------------------ *)
(* prime_generator.c                                                    *)
(* ------------------------------------------------------------------ *)
\* value of a Big below 10^6 as a machine integer
BigToInt(b) == IF b = << >> THEN 0 ELSE b[1]

\* mpz_popcount
RECURSIVE BigPopcount(_)
BigPopcount(b) ==
    IF b = << >> THEN 0
    ELSE IF Len(b) = 1 THEN Cardinality({j \in 0..19 : (b[1] \div 2 ^ j) % 2 = 1})
    ELSE Only({(b[1] % 2) + BigPopcount(h) : h \in {BigHalf(b)}})

Pow2(e) == 2 ^ e

\* a Lucas-Lehmer loop that runs one iteration too many
LucasLehmerLoopOneMore(s, Mp, iters) ==
    LET Loop[k \in Nat, sk \in Nat] ==
            IF k = 0 THEN sk ELSE Loop[k - 1, (sk * sk - 2) % Mp]
    IN  Loop[iters + 1, s]

\* the Lucas-Lehmer loop: s <- (s^2 - 2) mod Mp, `iters` times
LucasLehmerLoop(s, Mp, iters) ==
    LET Loop[k \in Nat, sk \in Nat] ==
            IF k = 0 THEN sk ELSE Loop[k - 1, (sk * sk - 2) % Mp]
    IN  Loop[iters, s]

\* Lucas-Lehmer for M_p = 2^p - 1
is_mersenne_prime_ll(p) ==
    IF p = 2 THEN TRUE
    ELSE IF p < 2 THEN FALSE
    ELSE LucasLehmerLoop(4, Pow2(p) - 1, p - 2) = 0

\* is n = 2^p - 1 for some p, and if so does the Lucas-Lehmer test pass
detect_mersenne_and_test(nn) ==
    IF BigCmpUi(nn, 3) < 0 THEN FALSE
    ELSE LET tt == BigAddUi(nn, 1)
         IN  IF BigPopcount(tt) # 1 THEN FALSE
             ELSE is_mersenne_prime_ll(BigBits(tt) - 1)

\* if (mpz_even_p(n)) n += 1
next_odd(nn) == IF BigEven(nn) THEN BigAddUi(nn, 1) ELSE nn

\* rounds chosen from the bit length
MillerRabinReps(nn) ==
    LET bits == BigBits(nn)
    IN  IF bits <= 64 THEN 10 ELSE IF bits <= 512 THEN 25
        ELSE IF bits <= 4096 THEN 40 ELSE 64

\* size-aware Miller-Rabin
is_prime_mr_gmp(nn) ==
    IF BigCmpUi(nn, 2) < 0 THEN FALSE
    ELSE IF BigCmpUi(nn, 2) = 0 \/ BigCmpUi(nn, 3) = 0 \/ BigCmpUi(nn, 5) = 0 THEN TRUE
    ELSE IF BigEven(nn) THEN FALSE
    ELSE IF BigFdivUi(nn, 3) = 0 THEN FALSE
    ELSE IF BigFdivUi(nn, 5) = 0 THEN FALSE
    ELSE MpzProbabPrime(nn, MillerRabinReps(nn))

\* the residue list shared by the three wheel-30 routines of prime_generator.c
wheel30 == <<1, 11, 13, 17, 19, 23, 29, 31>>

\* the gap table of the residues 1,7,11,13,17,19,23,29 used with this list
wheel30_gaps_textbook == <<6, 4, 2, 4, 2, 4, 6, 2>>

\* gaps between consecutive entries of wheel30 (line 320)
wheel30_gaps == <<10, 2, 4, 2, 4, 6, 2, 6>>

is_wheel30_candidate(nn) ==
    LET mod == BigFdivUi(nn, 30)
    IN  \E k \in 1..Len(wheel30) : mod = wheel30[k]

lucas_small_primes == <<7, 11, 13, 17, 19, 23, 29, 31, 37, 41, 43, 47>>

\* a trial division that rejects every multiple of a trial prime, the prime
\* itself included
lucas_prefilter_gmp_no_equal(nn) ==
    \A k \in 1..Len(lucas_small_primes) : BigFdivUi(nn, lucas_small_primes[k]) # 0

\* trial division by 7..47: TRUE when n passes; the loop stops at the first
\* entry dividing n and passes only when that entry is n itself
lucas_prefilter_gmp(nn) ==
    \A k \in 1..Len(lucas_small_primes) :
        (/\ BigFdivUi(nn, lucas_small_primes[k]) = 0
         /\ \A j \in 1..(k - 1) : BigFdivUi(nn, lucas_small_primes[j]) # 0)
        => BigCmpUi(nn, lucas_small_primes[k]) = 0

\* wheel-30 + trial division + Miller-Rabin
is_probable_prime(nn) ==
    IF ~is_wheel30_candidate(nn) THEN FALSE
    ELSE IF ~lucas_prefilter_gmp(nn) THEN FALSE
    ELSE is_prime_mr_gmp(nn)

\* position of the first wheel30 entry >= mod, 0 when there is none
FirstWheelAtLeast(mod) ==
    IF \E k \in 1..Len(wheel30) : mod <= wheel30[k]
    THEN CHOOSE k \in 1..Len(wheel30) :
             mod <= wheel30[k] /\ \A j \in 1..(k - 1) : mod > wheel30[j]
    ELSE 0

\* an alignment to the table entry at or below the value
align_wheel30_candidate_down(c) ==
    LET mod == BigFdivUi(c, 30)
    IN  IF mod = 0 THEN BigSubUi(c, 1)
        ELSE BigSubUi(c, mod - wheel30[CHOOSE k \in 1..Len(wheel30) :
                                          /\ wheel30[k] <= mod
                                          /\ \A j \in (k + 1)..Len(wheel30) : wheel30[j] > mod])

\* align to the wheel-30 residue at or above the value
align_wheel30_candidate(c) ==
    LET mod == BigFdivUi(c, 30)
        k == FirstWheelAtLeast(mod)
    IN  IF k = 0 THEN BigAddUi(c, 30 - mod + 1)
        ELSE IF mod = wheel30[k] THEN c
        ELSE BigAddUi(c, wheel30[k] - mod)

\* move to the next wheel-30 position
next_wheel30_candidate(c) ==
    LET mod == BigFdivUi(c, 30)
        k == FirstWheelAtLeast(mod)
    IN  IF k = 0 THEN BigAddUi(c, 30 - mod + 1)
        ELSE IF mod = wheel30[k] THEN BigAddUi(c, wheel30_gaps[k])
        ELSE BigAddUi(c, wheel30[k] - mod)

(* ------------------------------------------------------------------ *)
(* z5d_mersenne.c                                                       *)
(* ------------------------------------------------------------------ *)
wheel_30 == <<1, 7, 11, 13, 17, 19, 23, 29>>

wheel_210 ==
    <<1, 11, 13, 17, 19, 23, 29, 31, 37, 41, 43, 47, 53, 59, 61, 67, 71, 73, 79, 83, 89, 97,
      101, 103, 107, 109, 113, 121, 127, 131, 137, 139, 143, 149, 151, 157, 163, 167, 169,
      173, 179, 181, 187, 191, 193, 197, 199, 209>>

wheels == << [modulus |-> 30, offsets |-> wheel_30], [modulus |-> 210, offsets |-> wheel_210] >>

NoWheel == [modulus |-> 0, offsets |-> << >>]

\* the wheel of the given modulus, NoWheel (NULL) when unsupported
get_wheel(modulus) ==
    IF \E k \in 1..Len(wheels) : wheels[k].modulus = modulus
    THEN wheels[CHOOSE k \in 1..Len(wheels) : wheels[k].modulus = modulus]
    ELSE NoWheel

MaxPrimes == 10        \* the candidates buffer of auto_tune_scan / manual_scan

WindowCap == 10000     \* upper bound of the expand branch

\* An unsigned long is held as the integer of least magnitude congruent to it
\* modulo 2^64 (its value read as a C long): 2^64 - 5 is held as -5.  Sums,
\* differences and products are then exact modulo 2^64; comparisons of
\* unsigned operands are made by ULongLt / ULongLe.
ULongLt(a, b) ==
    IF (a >= 0) = (b >= 0) THEN a < b ELSE b < 0

ULongLe(a, b) == a = b \/ ULongLt(a, b)

\* a centre always aligned to the first residue of the wheel
AlignedCenterFirstResidue(center, wheel, widx) ==
    LET wheel_offset == wheel.offsets[1]
        remainder == center % wheel.modulus
        adjust == IF wheel_offset - remainder < 0
                  THEN wheel_offset - remainder + wheel.modulus
                  ELSE wheel_offset - remainder
    IN  IF remainder # wheel_offset THEN center + adjust ELSE center

\* the centre aligned forward to the residue selected by wheel_index
AlignedCenter(center, wheel, widx) ==
    LET wheel_offset == wheel.offsets[(widx % Len(wheel.offsets)) + 1]
        remainder == center % wheel.modulus
        adjust == IF wheel_offset - remainder < 0
                  THEN wheel_offset - remainder + wheel.modulus
                  ELSE wheel_offset - remainder
    IN  IF remainder # wheel_offset THEN center + adjust ELSE center

\* a candidate test that counts a call only when the candidate is prime
ScanTestCountsPrimesOnly(acc, cand) ==
    IF cand > 3
    THEN Only({[count |-> IF is_prime THEN acc.count + 1 ELSE acc.count,
                found |-> IF is_prime THEN Append(acc.found, cand) ELSE acc.found,
                calls |-> IF is_prime THEN acc.calls + 1 ELSE acc.calls,
                tested |-> Append(acc.tested, cand)] : is_prime \in {IsPrime(cand)}})
    ELSE acc

\* one candidate of a scan: tested (and counted as a Miller-Rabin call) only above 3
ScanTest(acc, cand) ==
    IF cand > 3
    THEN Only({[count |-> IF is_prime THEN acc.count + 1 ELSE acc.count,
                found |-> IF is_prime THEN Append(acc.found, cand) ELSE acc.found,
                calls |-> acc.calls + 1,
                tested |-> Append(acc.tested, cand)] : is_prime \in {IsPrime(cand)}})
    ELSE acc

\* a pass whose backward candidate is tested whatever the count
ScanPassBackwardUnguarded(center, modulus, max_primes, offset, acc) ==
    Only({IF offset > 0
          THEN ScanTest(fwd, center - offset * modulus)
          ELSE fwd :
          fwd \in {IF offset = 0 \/ acc.count < max_primes
                   THEN ScanTest(acc, center + offset * modulus)
                   ELSE acc}})

\* one pass of the loop of scan_prime_count: the forward candidate, then the
\* backward one
ScanPass(center, modulus, max_primes, offset, acc) ==
    Only({IF offset > 0 /\ fwd.count < max_primes
          THEN ScanTest(fwd, center - offset * modulus)
          ELSE fwd :
          fwd \in {IF offset = 0 \/ acc.count < max_primes
                   THEN ScanTest(acc, center + offset * modulus)
                   ELSE acc}})

\* what a scan has accumulated: primes counted and stored, Miller-Rabin calls,
\* candidates tested
ScanAcc == [count : Nat, found : Seq(Nat), calls : Nat, tested : Seq(Nat)]

\* the loop of scan_prime_count from the given offset on
ScanLoop(center, modulus, window, step, max_primes, offset, acc) ==
    LET Loop[o \in Int, a \in ScanAcc] ==
            IF ~(ULongLe(o, window) /\ a.count < max_primes) THEN a
            ELSE Loop[o + step, ScanPass(center, modulus, max_primes, o, a)]
    IN  Loop[offset, acc]

\* scan_prime_count: the primes found around the prediction with the residue
\* selected by the static wheel_index
scan_prime_count(prediction, window, step, wheel, widx, max_primes) ==
    Only({ScanLoop(center, wheel.modulus, window, step, max_primes, 0,
                   [count |-> 0, found |-> << >>, calls |-> 0, tested |-> << >>]) :
          center \in {AlignedCenter(prediction, wheel, widx)}})

\* with step = 0 the loop of scan_prime_count (line 510) stays at offset 0: it
\* ends only when the centre is counted as a prime on every pass, max_primes
\* times; otherwise the call does not return
ScanDiverges(prediction, step, wheel, widx) ==
    /\ step = 0
    /\ \E center \in {AlignedCenter(prediction, wheel, widx)} :
           ~(center > 3 /\ IsPrime(center))

\* a tuning policy that treats every count below the target as a count of 0
AdjustExpandsBelowTarget(window, step, count, target_count) ==
    IF count < target_count
    THEN (IF ULongLt(window, WindowCap)
          THEN <<(window * 3) \div 2, step>>
          ELSE <<window, IF ULongLt(1, step) THEN step - 1 ELSE 1>>)
    ELSE IF count > target_count
    THEN (IF ULongLt(step * 2, window)
          THEN <<(window * 2) \div 3, step>>
          ELSE <<window, step + 1>>)
    ELSE <<window, step>>

\* a tuning policy that still expands the window at the bound
AdjustCapInclusive(window, step, count, target_count) ==
    IF count = 0
    THEN (IF ULongLe(window, WindowCap)
          THEN <<(window * 3) \div 2, step>>
          ELSE <<window, IF ULongLt(1, step) THEN step - 1 ELSE 1>>)
    ELSE IF count > target_count
    THEN (IF ULongLt(step * 2, window)
          THEN <<(window * 2) \div 3, step>>
          ELSE <<window, step + 1>>)
    ELSE <<window, step>>

\* the tuning policy applied after a scan that did not hit the target
\* (lines 584-598): the new <<window, step>>
Adjust(window, step, count, target_count) ==
    IF count = 0
    THEN (IF ULongLt(window, WindowCap)
          THEN <<(window * 3) \div 2, step>>
          ELSE <<window, IF ULongLt(1, step) THEN step - 1 ELSE 1>>)
    ELSE IF count > target_count
    THEN (IF ULongLt(step * 2, window)
          THEN <<(window * 2) \div 3, step>>
          ELSE <<window, step + 1>>)
    ELSE <<window, step>>


(* ------------------------------------------------------------------ *)
(* State                                                                *)
(* ------------------------------------------------------------------ *)
VARIABLES
    prog,              \* the operation this run exercises
    pc,                \* position inside it
    ret,               \* its return value / exit status, meaningful once it has returned
    \* z5d_predictor.c
    z5d_initialized,   \* static flag
    n,                 \* index argument of z5d_predict_nth_prime_mpz
    x0,                \* rounded estimate handed to refine_to_prime
    candidate,         \* refine_to_prime: snapped estimate
    t,                 \* refine_to_prime: candidate under test
    rstep,             \* refine_to_prime: loop variable `step` of the windowed search
    dir,               \* refine_to_prime: loop variable `dir`
    base_window,       \* refine_to_prime: radius of the windowed search
    prime_out,         \* output integer
    lastTest,          \* record of the checks made on the candidate tested last
    \* prime_generator.c
    arg_start,         \* the value given with --start
    cfg_start,         \* cfg.start
    cfg_count,         \* cfg.count
    main_candidate,    \* main: candidate
    out,               \* next_prime_from: out
    i,                 \* main: loop index
    printed,           \* rows written so far: <<prime, is_mersenne>>
    mers_in,           \* argument of detect_mersenne_and_test when called on its own
    mers_out,          \* its result
    \* z5d_mersenne.c
    argv,              \* the command line: the index and the option values as typed
    config,            \* wave_config_t
    prediction,        \* rounded Z5D prediction (the scan centre before alignment)
    window,            \* auto_tune_scan: window
    step,              \* auto_tune_scan: step
    iteration,         \* auto_tune_scan: iteration
    found_target,      \* auto_tune_scan: found_target
    wheel_index,       \* scan_prime_count: static wheel_index
    g_total_mr_calls,  \* global Miller-Rabin call counter
    result,            \* wave_result_t
    scan_log,          \* one record per scan performed
    \* a client of the z5d_predictor library
    lib_result,        \* the caller's z5d_result_t
    call_log,          \* one record per prediction call made in the session
    lib_calls,         \* library calls made in the session
    \* the trial-division stages called on their own
    trial_in,          \* the argument n
    trial_lucas,       \* result of lucas_prefilter_gmp(n)
    trial_presieve,    \* result of divisible_by_small_prime(n)
    \* snap_to_6k_pm1 called on its own
    snap_n,            \* the argument n before the call
    snap_dir,          \* the argument dir
    snap_out           \* n after the call

predVars == <<z5d_initialized, n, x0, candidate, t, rstep, dir, base_window, prime_out, lastTest>>
genVars == <<arg_start, cfg_start, cfg_count, main_candidate, out, i, printed, mers_in, mers_out>>
waveVars == <<argv, config, prediction, window, step, iteration, found_target, wheel_index,
              g_total_mr_calls, result, scan_log>>
libVars == <<lib_result, call_log, lib_calls>>
trialVars == <<trial_in, trial_lucas, trial_presieve, snap_n, snap_dir, snap_out>>
vars == <<prog, pc, ret, predVars, genVars, waveVars, libVars, trialVars>>

(* ------------------------------------------------------------------ *)
(* Inputs                                                               *)
(* ------------------------------------------------------------------ *)
\* indices given to z5d_predict_nth_prime_mpz
IndexInputs == {BigOf(k) : k \in 0..MaxIndex} \cup {KNOWN[k].n : k \in 1..Len(KNOWN)}

\* estimates given to refine_to_prime directly: small ones, and ones in the
\* middle of the prime gap above 461690510011, out of reach of the windowed search
RefineInputs ==
    {MpfrOfInt(k) : k \in -2..(2 * MaxIndex)}
    \cup {[neg |-> FALSE, mag |-> BigAddUi(GapLow, d)] : d \in {259, 266, 270}}

\* 2805 is followed by 2807 = 7 * 401, 2809 = 53 * 53 and 2813 = 29 * 97
StartInputs == {BigOf(k) : k \in 0..MaxStart} \cup {BigOf(2805)}
CountInputs == 0..MaxCount

\* arguments of the trial-division stages: 2..MaxTrial, and squares and
\* products of the largest trial primes
TrialInputs ==
    {BigOf(k) : k \in 2..MaxTrial} \cup {BigOf(k) : k \in {2021, 2209, 8633, 9409, 9797}}

\* arguments of snap_to_6k_pm1: 0..MaxSnap, and values around the limb base
SnapInputs ==
    {BigOf(k) : k \in 0..MaxSnap} \cup {BigAddUi(BigOf(999990), k) : k \in 0..20}

MersenneInputs == {BigOf(k) : k \in 0..Pow2(MaxMersenneExp)}

\* indices and precisions given to z5d_predict_nth_prime(_ex): the invalid
\* index 0, the indices 1 and 2 whose estimates are not positive, and the
\* first index of the test grid
LibIndexInputs == {0, 1, 2, 100}
LibPrecisionInputs == {64, 300, Z5D_DEFAULT_PRECISION}

\* a number as it is typed on the command line
DigitChar(d) == <<"0", "1", "2", "3", "4", "5", "6", "7", "8", "9">>[d + 1]

DecStr(v) ==
    LET Loop[x \in Nat] ==
            IF x < 10 THEN <<DigitChar(x)>> ELSE Append(Loop[x \div 10], DigitChar(x % 10))
    IN  Loop[v]

\* argv[1] of the wave-knob program: not a number, below 2, and indices whose
\* predictions are -1, 99 and 1243
KArgs == {<<"a", "b", "c">>, <<"-", "3">>, <<"0">>, <<"1">>, <<"2">>, <<"2", "8">>,
          <<"2", "0", "7">>}
WindowInputs == {0, 1, 2, 4, 64, 9999, 10000}
StepInputs == {0, 1, 2, 3, 20000}
WheelInputs == {30, 210, 2310}
TargetInputs == {0, 1, 3}
MaxItersInputs == 0..MaxIters

NoTest == [v |-> BigZero, sieve |-> "skipped", pp25 |-> "skipped", pp50 |-> "skipped",
           accept |-> FALSE]

PrecisionArgs == {<<"6", "3">>, <<"6", "4">>, <<"4", "0", "9", "6">>,
                  <<"1", "3", "1", "0", "7", "2">>, <<"1", "3", "1", "0", "7", "3">>,
                  <<"-", "1">>}

\* command lines: every combination of --window, --step, --wheel, --max-iters,
\* --target and --scan / --auto-tune with the index, at the default precision;
\* one command line with each --prec value; a run of LongRunIters iterations
\* that never reaches its target; and the largest step, 2^64 - 1, with target 0
ArgInputs ==
    [k : KArgs,
     window : {DecStr(v) : v \in WindowInputs},
     step : {DecStr(v) : v \in StepInputs} \cup {<<"-", "5">>},
     wheel : {DecStr(v) : v \in WheelInputs},
     max_iters : {DecStr(v) : v \in MaxItersInputs},
     target : {DecStr(v) : v \in TargetInputs},
     prec : {DecStr(4096)},
     auto_tune : {0, 1}]
    \cup
    [k : {DecStr(207)}, window : {DecStr(64)}, step : {DecStr(2)}, wheel : {DecStr(30)},
     max_iters : {DecStr(1)}, target : {DecStr(1)}, prec : PrecisionArgs, auto_tune : {1}]
    \cup
    [k : {DecStr(207)}, window : {DecStr(1)}, step : {DecStr(2)}, wheel : {DecStr(30)},
     max_iters : {DecStr(LongRunIters)}, target : {DecStr(3)}, prec : {DecStr(4096)},
     auto_tune : {1}]
    \cup
    [k : {DecStr(28)}, window : {DecStr(64)}, step : {<<"-", "1">>}, wheel : {DecStr(210)},
     max_iters : {DecStr(v) : v \in MaxItersInputs}, target : {DecStr(0)},
     prec : {DecStr(4096)}, auto_tune : {1}]

\* no command line yet
IdleArgv == [k |-> << >>, window |-> << >>, step |-> << >>, wheel |-> << >>,
             max_iters |-> << >>, target |-> << >>, prec |-> << >>, auto_tune |-> 1]

\* init_wave_config
IdleConfig == [window |-> 64, step |-> 2, wheel_mod |-> 210, max_iters |-> 100,
               target_count |-> 1, precision |-> 4096, auto_tune |-> 1]

\* init_wave_result
init_wave_result ==
    [window |-> 0, step |-> 0, ratio |-> <<0, 1>>, prime_count |-> 0, iterations |-> 0,
     mr_calls |-> 0, prime_found |-> 0, locked |-> 0]

(* ------------------------------------------------------------------ *)
(* Initial state: the statics as the loader leaves them, nothing called *)
(* yet.  A run then enters one operation, with its arguments.           *)
(* ------------------------------------------------------------------ *)
Init ==
    /\ prog = "none" /\ pc = "idle" /\ ret = 0
    /\ z5d_initialized = 0
    /\ n = BigZero /\ x0 = MpfrOfInt(0)
    /\ candidate = BigZero /\ t = BigZero /\ rstep = 0 /\ dir = 0 /\ base_window = 0
    /\ prime_out = BigZero
    /\ lastTest = NoTest
    /\ arg_start = BigZero /\ cfg_start = BigZero /\ cfg_count = 0
    /\ main_candidate = BigZero /\ out = BigZero /\ i = 0
    /\ printed = << >>
    /\ mers_in = BigZero /\ mers_out = FALSE
    /\ argv = IdleArgv /\ config = IdleConfig /\ prediction = 0
    /\ window = 0 /\ step = 0 /\ iteration = 0 /\ found_target = 0
    /\ wheel_index = 0 /\ g_total_mr_calls = 0
    /\ result = init_wave_result
    /\ scan_log = << >>
    /\ lib_result = z5d_result_init /\ call_log = << >> /\ lib_calls = 0
    /\ trial_in = BigZero /\ trial_lucas = FALSE /\ trial_presieve = FALSE
    /\ snap_n = BigZero /\ snap_dir = 0 /\ snap_out = BigZero

(* ------------------------------------------------------------------ *)
(* z5d_predictor.c: actions                                             *)
(* ------------------------------------------------------------------ *)
\* z5d_predict_nth_prime_mpz up to the call of refine_to_prime: argument
\* check, library initialisation, KNOWN fast path, closed-form prediction
Z5dPredictNthPrimeMpz ==
    /\ pc = "idle"
    /\ \E nn \in IndexInputs :
          /\ prog' = "predict"
          /\ n' = nn
          /\ IF nn = BigZero
             THEN /\ ret' = -1
                  /\ pc' = "done"
                  /\ UNCHANGED <<z5d_initialized, x0, prime_out>>
             ELSE /\ z5d_initialized' = 1
                  /\ IF KnownIndex(nn) # 0
                     THEN /\ prime_out' = MpzSetStr(KNOWN[KnownIndex(nn)].p_str)
                          /\ ret' = 0
                          /\ pc' = "done"
                          /\ UNCHANGED x0
                     ELSE /\ x0' = MpfrOfInt(z5d_predict_mpfr(BigToInt(nn)))
                          /\ pc' = "refine"
                          /\ UNCHANGED <<ret, prime_out>>
    /\ UNCHANGED <<candidate, t, rstep, dir, base_window, lastTest, genVars, waveVars, libVars, trialVars>>

\* what the return of refine_to_prime leaves for its caller: the `return 0`
\* of z5d_predict_nth_prime_mpz (line 304)
RefineReturn ==
    /\ pc' = "done"
    /\ ret' = IF prog = "predict" THEN 0 ELSE ret

\* refine_to_prime, lines 162-184: starting candidate, quick check, and on
\* failure the radius of the windowed search
\* called by z5d_predict_nth_prime_mpz (line 303) or on its own
RefineQuick ==
    /\ \/ prog = "predict" /\ pc = "refine" /\ UNCHANGED <<prog, x0>>
       \/ pc = "idle" /\ prog' = "refine" /\ x0' \in RefineInputs
    /\ \E c \in {RefineStart(x0')} : \E chk \in {CheckCandidate(c)} :
           /\ candidate' = c
           /\ lastTest' = chk
           /\ IF chk.accept
              THEN /\ prime_out' = c
                   /\ RefineReturn
                   /\ UNCHANGED <<rstep, dir, base_window>>
              ELSE /\ base_window' = BaseWindow(x0')
                   /\ rstep' = 1 /\ dir' = 1
                   /\ pc' = "local"
                   /\ UNCHANGED <<prime_out, ret>>
    /\ UNCHANGED <<z5d_initialized, n, t, genVars, waveVars, libVars, trialVars>>

\* refine_to_prime, lines 186-211: one pass of the inner loop body, then the
\* loop increments; the forward scan starts from the candidate (line 215)
RefineLocalStep ==
    /\ prog \in {"predict", "refine"} /\ pc = "local"
    /\ \E lc \in {LocalCandidate(candidate, rstep, dir)} : \E chk \in {CheckCandidate(lc.t)} :
           IF ~lc.skip /\ chk.accept
           THEN /\ t' = lc.t
                /\ lastTest' = chk
                /\ prime_out' = lc.t
                /\ RefineReturn
                /\ UNCHANGED <<rstep, dir>>
           ELSE /\ lastTest' = IF lc.skip THEN lastTest ELSE chk
                /\ UNCHANGED <<prime_out, ret>>
                /\ IF dir = 1
                   THEN /\ dir' = -1
                        /\ t' = IF lc.skip THEN t ELSE lc.t
                        /\ UNCHANGED <<rstep, pc>>
                   ELSE /\ dir' = 1
                        /\ rstep' = rstep + 1
                        /\ IF rstep + 1 <= base_window
                           THEN /\ t' = IF lc.skip THEN t ELSE lc.t
                                /\ UNCHANGED pc
                           ELSE /\ t' = candidate
                                /\ pc' = "forward"
    /\ UNCHANGED <<prog, z5d_initialized, n, x0, candidate, base_window, genVars, waveVars, libVars, trialVars>>

\* refine_to_prime, lines 216-226: one pass of the forward scan
RefineForwardStep ==
    /\ prog \in {"predict", "refine"} /\ pc = "forward"
    /\ \E tn \in {ForwardAdvance(t)} : \E chk \in {CheckCandidate(tn)} :
           /\ t' = tn
           /\ lastTest' = chk
           /\ IF chk.accept
              THEN /\ prime_out' = tn
                   /\ RefineReturn
              ELSE UNCHANGED <<prime_out, ret, pc>>
    /\ UNCHANGED <<prog, z5d_initialized, n, x0, candidate, rstep, dir, base_window,
                   genVars, waveVars, libVars, trialVars>>

(* ------------------------------------------------------------------ *)
(* prime_generator.c: actions                                           *)
(* ------------------------------------------------------------------ *)
\* main, lines 532-561: argument check, clamp to an odd start >= 3
GeneratorMain ==
    /\ pc = "idle"
    /\ \E s \in StartInputs, c \in CountInputs :
          /\ prog' = "generator"
          /\ arg_start' = s
          /\ cfg_count' = c
          /\ IF s = BigZero \/ c = 0
             THEN /\ ret' = 1
                  /\ pc' = "exit"
                  /\ cfg_start' = s
                  /\ UNCHANGED <<main_candidate, i>>
             ELSE LET s3 == IF BigCmpUi(s, 3) < 0 THEN BigOf(3) ELSE s
                  IN  /\ cfg_start' = next_odd(s3)
                      /\ main_candidate' = next_odd(s3)
                      /\ i' = 1
                      /\ pc' = "next_prime_from"
                      /\ UNCHANGED ret
    /\ UNCHANGED <<out, printed, mers_in, mers_out, predVars, waveVars, libVars, trialVars>>

\* next_prime_from, lines 346-360: copy the start and align it
NextPrimeFromAlign ==
    /\ prog = "generator" /\ pc = "next_prime_from"
    /\ out' = align_wheel30_candidate(main_candidate)
    /\ pc' = "test"
    /\ UNCHANGED <<prog, ret, arg_start, cfg_start, cfg_count, main_candidate, i, printed, mers_in,
                   mers_out, predVars, waveVars, libVars, trialVars>>

\* next_prime_from, lines 362-411: one pass of the loop on the candidate `out`
NextPrimeFromTest ==
    /\ prog = "generator" /\ pc = "test"
    /\ IF ~lucas_prefilter_gmp(out)
       THEN /\ out' = next_wheel30_candidate(out)
            /\ UNCHANGED pc
       ELSE IF is_prime_mr_gmp(out)
       THEN /\ pc' = "found"
            /\ UNCHANGED out
       ELSE /\ out' = next_wheel30_candidate(out)
            /\ UNCHANGED pc
    /\ UNCHANGED <<prog, ret, arg_start, cfg_start, cfg_count, main_candidate, i, printed, mers_in,
                   mers_out, predVars, waveVars, libVars, trialVars>>

\* main, lines 566-583 and 601-602: Mersenne check and output of the prime
\* found, preparation of the next candidate, loop test
GeneratorEmit ==
    /\ prog = "generator" /\ pc = "found"
    /\ \E is_mersenne \in {detect_mersenne_and_test(out)} :
           printed' = Append(printed, <<out, is_mersenne>>)
    /\ main_candidate' = BigAddUi(out, 2)
    /\ i' = i + 1
    /\ IF i + 1 <= cfg_count
       THEN pc' = "next_prime_from" /\ UNCHANGED ret
       ELSE pc' = "exit" /\ ret' = 0
    /\ UNCHANGED <<prog, arg_start, cfg_start, cfg_count, out, mers_in, mers_out, predVars, waveVars, libVars, trialVars>>

\* a call of detect_mersenne_and_test on its own
DetectMersenne ==
    /\ pc = "idle"
    /\ prog' = "mersenne"
    /\ mers_in' \in MersenneInputs
    /\ mers_out' = detect_mersenne_and_test(mers_in')
    /\ pc' = "done"
    /\ UNCHANGED <<ret, arg_start, cfg_start, cfg_count, main_candidate, out, i, printed,
                   predVars, waveVars, libVars, trialVars>>


\* calls of lucas_prefilter_gmp and divisible_by_small_prime on their own
TrialDivision ==
    /\ pc = "idle"
    /\ prog' = "trial"
    /\ trial_in' \in TrialInputs
    /\ trial_lucas' = lucas_prefilter_gmp(trial_in')
    /\ trial_presieve' = divisible_by_small_prime(trial_in')
    /\ pc' = "done"
    /\ UNCHANGED <<ret, snap_n, snap_dir, snap_out, predVars, genVars, waveVars, libVars>>

\* a call of snap_to_6k_pm1 on its own, with dir = +1 or -1 as its callers
\* pass it; backward from 0 is left out (refine_to_prime never snaps a value
\* below 1 backward, and the result -1 is not a natural number)
SnapTo6kPm1 ==
    /\ pc = "idle"
    /\ prog' = "snap"
    /\ snap_n' \in SnapInputs
    /\ snap_dir' \in {-1, 1}
    /\ ~(snap_dir' < 0 /\ snap_n' = BigZero)
    /\ snap_out' = snap_to_6k_pm1(snap_n', snap_dir')
    /\ pc' = "done"
    /\ UNCHANGED <<ret, trial_in, trial_lucas, trial_presieve, predVars, genVars, waveVars,
                   libVars>>

(* ------------------------------------------------------------------ *)
(* z5d_mersenne.c: actions                                              *)
(* ------------------------------------------------------------------ *)
IsDigitChar(c) == c \in {"0", "1", "2", "3", "4", "5", "6", "7", "8", "9"}

\* the number of decimal digits of s starting at position p
DigitRun(s, p) ==
    CHOOSE j \in 0..(Len(s) - p + 1) :
        /\ \A q \in p..(p + j - 1) : IsDigitChar(s[q])
        /\ (p + j > Len(s) \/ ~IsDigitChar(s[p + j]))

\* the value of the digits s[p] .. s[p + j - 1]
DigitsValue(s, p, j) ==
    LET Loop[q \in Nat, acc \in Nat] ==
            IF q >= p + j THEN acc ELSE Loop[q + 1, 10 * acc + CharDigit(s[q])]
    IN  Loop[p, 0]

\* strtoul(s, NULL, 10): an optional sign, then the longest run of digits;
\* 0 when there is none; a leading '-' negates the value modulo 2^64
strtoul(s) ==
    LET neg == Len(s) >= 1 /\ s[1] = "-"
        p == IF Len(s) >= 1 /\ s[1] \in {"-", "+"} THEN 2 ELSE 1
        v == DigitsValue(s, p, DigitRun(s, p))
    IN  IF neg THEN -v ELSE v

\* the option loop of parse_arguments (lines 329-385) over init_wave_config
ParseOptions(args) ==
    [window |-> strtoul(args.window), step |-> strtoul(args.step),
     wheel_mod |-> strtoul(args.wheel), max_iters |-> strtoul(args.max_iters),
     target_count |-> strtoul(args.target), precision |-> strtoul(args.prec),
     auto_tune |-> args.auto_tune]

\* the checks at the end of parse_arguments (lines 407-424): 0 or -1
ValidateConfig(cfg) ==
    IF cfg.window = 0 \/ cfg.step = 0 THEN -1
    ELSE IF cfg.precision < 64 \/ cfg.precision > 131072 THEN -1
    ELSE IF get_wheel(cfg.wheel_mod) = NoWheel THEN -1
    ELSE 0

\* mpfr_set_str(k_input, argv[1], 0, MPFR_RNDN) on an optional sign followed by
\* decimal digits; anything else is not a number
MpfrSetStr(s) ==
    LET p == IF Len(s) >= 1 /\ s[1] \in {"-", "+"} THEN 2 ELSE 1
        j == DigitRun(s, p)
        v == DigitsValue(s, p, j)
    IN  IF j >= 1 /\ p + j = Len(s) + 1
        THEN [ok |-> TRUE, v |-> IF s[1] = "-" THEN -v ELSE v]
        ELSE [ok |-> FALSE, v |-> 0]

\* compute_z5d_prediction_mpfr: k (ln k + ln ln k - 1) + k^0.04 ln k / 100.
\* For k < 0 the logarithm is NaN, for k = 0 it is -Inf and its logarithm NaN,
\* for k = 1 it is 0 and its logarithm -Inf: the result is not a finite number
compute_z5d_prediction_mpfr(k) ==
    IF k < 1 THEN MpfrNaN
    ELSE IF k = 1 THEN MpfrNegInf
    ELSE Only({Only({MpfrNum(k * (log_k + log_log_k - FxOne)
                            + FxMul(FxExp(FxMul(FxOne \div 25, log_k)), log_k) \div 100) :
                     log_log_k \in {FxLog(log_k)}}) :
               log_k \in {FxLog(k * FxOne)}})

\* mpfr_get_z(center, prediction, MPFR_RNDN): 0 for NaN and the infinities
MpfrGetZ(x) == IF x.finite THEN FxRound(x.v) ELSE 0

\* main, lines 129-180, with the entry of the selected scan (lines 545-560):
\* parse_arguments is called without k_input, so its checks of k (lines
\* 388-403) are not made; a rejected configuration, and an index that
\* mpfr_set_str does not accept (line 145), end the program with status 1
WaveMain ==
    /\ pc = "idle"
    /\ prog' = "wave"
    /\ argv' \in ArgInputs
    /\ config' = ParseOptions(argv')
    /\ IF ValidateConfig(config') # 0 \/ ~MpfrSetStr(argv'.k).ok
       THEN /\ ret' = 1
            /\ pc' = "exit"
            /\ UNCHANGED <<prediction, window, step, iteration, found_target>>
       ELSE /\ prediction' = MpfrGetZ(compute_z5d_prediction_mpfr(MpfrSetStr(argv'.k).v))
            /\ window' = config'.window
            /\ step' = config'.step
            /\ iteration' = 0
            /\ found_target' = 0
            /\ pc' = IF config'.auto_tune = 1 THEN "auto_tune" ELSE "manual_scan"
            /\ UNCHANGED ret
    /\ result' = init_wave_result
    /\ UNCHANGED <<wheel_index, g_total_mr_calls, scan_log, predVars, genVars, libVars, trialVars>>

\* the entry a scan leaves in the log
LogEntry(sc, w, st) ==
    [window |-> w, step |-> st, wheel_index |-> wheel_index, count |-> sc.count,
     found |-> sc.found, tested |-> sc.tested, calls |-> sc.calls,
     center |-> AlignedCenter(prediction, get_wheel(config.wheel_mod), wheel_index)]

\* the loop condition of auto_tune_scan (line 567)
\* a loop bound that admits one scan too many
TuneLoopConditionInclusive(iter, max_iters, found) == iter <= max_iters /\ found = 0

TuneLoopCondition(iter, max_iters, found) == iter < max_iters /\ found = 0

\* auto_tune_scan, lines 567-601: one pass of the self-tuning loop
AutoTuneIterate ==
    /\ prog = "wave" /\ pc = "auto_tune"
    /\ TuneLoopCondition(iteration, config.max_iters, found_target)
    /\ ~ScanDiverges(prediction, step, get_wheel(config.wheel_mod), wheel_index)
    /\ \E sc \in {scan_prime_count(prediction, window, step, get_wheel(config.wheel_mod),
                                     wheel_index, MaxPrimes)} :
       \E adj \in {Adjust(window, step, sc.count, config.target_count)} :
           /\ wheel_index' = wheel_index + 1
           /\ g_total_mr_calls' = g_total_mr_calls + sc.calls
           /\ scan_log' = Append(scan_log, LogEntry(sc, window, step))
           /\ IF sc.count = config.target_count
              THEN /\ found_target' = 1
                   /\ result' = [result EXCEPT !.prime_count = sc.count,
                                               !.prime_found = IF sc.count = 1 THEN sc.found[1]
                                                               ELSE @]
                   /\ UNCHANGED <<window, step, iteration>>
              ELSE /\ window' = adj[1]
                   /\ step' = adj[2]
                   /\ iteration' = iteration + 1
                   /\ UNCHANGED <<found_target, result>>
    /\ UNCHANGED <<prog, pc, ret, argv, config, prediction, predVars, genVars, libVars, trialVars>>

\* auto_tune_scan, line 568: a call of scan_prime_count that does not return;
\* the program stays in its loop
AutoTuneScanSpins ==
    /\ prog = "wave" /\ pc = "auto_tune"
    /\ TuneLoopCondition(iteration, config.max_iters, found_target)
    /\ ScanDiverges(prediction, step, get_wheel(config.wheel_mod), wheel_index)
    /\ wheel_index' = wheel_index + 1
    /\ pc' = "scanning"
    /\ UNCHANGED <<prog, ret, argv, config, prediction, window, step, iteration, found_target,
                   g_total_mr_calls, result, scan_log, predVars, genVars, libVars, trialVars>>

\* auto_tune_scan, lines 603-628: record the final state and return
AutoTuneFinish ==
    /\ prog = "wave" /\ pc = "auto_tune"
    /\ ~TuneLoopCondition(iteration, config.max_iters, found_target)
    /\ result' = [result EXCEPT !.window = window, !.step = step,
                                !.ratio = <<window, step>>,
                                !.iterations = iteration,
                                !.locked = found_target,
                                !.mr_calls = g_total_mr_calls]
    /\ ret' = IF found_target = 1 THEN 0 ELSE -1
    /\ pc' = "output"
    /\ UNCHANGED <<prog, argv, config, prediction, window, step, iteration, found_target,
                   wheel_index, g_total_mr_calls, scan_log, predVars, genVars, libVars, trialVars>>

\* a lock flag set whenever the count reaches the target
ManualLockedAtLeast(count, target_count) == IF count >= target_count THEN 1 ELSE 0

\* manual_scan, line 654: result->locked = (count == config->target_count)
ManualLocked(count, target_count) == IF count = target_count THEN 1 ELSE 0

\* manual_scan, lines 631-675: a single scan with the configured parameters
ManualScan ==
    /\ prog = "wave" /\ pc = "manual_scan"
    /\ \E sc \in {scan_prime_count(prediction, config.window, config.step,
                                     get_wheel(config.wheel_mod), wheel_index, MaxPrimes)} :
           /\ wheel_index' = wheel_index + 1
           /\ g_total_mr_calls' = g_total_mr_calls + sc.calls
           /\ scan_log' = Append(scan_log, LogEntry(sc, config.window, config.step))
           /\ result' = [result EXCEPT !.window = config.window, !.step = config.step,
                                       !.ratio = <<config.window, config.step>>,
                                       !.prime_count = sc.count,
                                       !.iterations = 0,
                                       !.locked = ManualLocked(sc.count, config.target_count),
                                       !.mr_calls = g_total_mr_calls + sc.calls,
                                       !.prime_found = IF sc.count >= 1 THEN sc.found[1] ELSE @]
    /\ ret' = 0
    /\ pc' = "output"
    /\ UNCHANGED <<prog, argv, config, prediction, window, step, iteration, found_target,
                   predVars, genVars, libVars, trialVars>>

\* output_json_result, lines 689-693 (output_human_result, lines 709-711): the
\* prime printed, << >> for null / nothing
ReportedPrime(res) == IF res.prime_count = 1 THEN <<res.prime_found>> ELSE << >>

\* main, lines 182-204: print the result and return ret
WaveOutput ==
    /\ prog = "wave" /\ pc = "output"
    /\ pc' = "exit"
    /\ UNCHANGED <<prog, ret, predVars, genVars, waveVars, libVars, trialVars>>

(* ------------------------------------------------------------------ *)
(* z5d_predictor.c: a client session of init, cleanup and predictions  *)
(* ------------------------------------------------------------------ *)
\* a library call is made by a fresh client or inside its session
LibCall ==
    /\ pc = "idle" \/ (prog = "library" /\ pc = "lib")
    /\ lib_calls < MaxCalls
    /\ prog' = "library" /\ pc' = "lib"
    /\ lib_calls' = lib_calls + 1

\* z5d_init, lines 41-46
Z5dInit ==
    /\ LibCall
    /\ z5d_initialized' = 1
    /\ UNCHANGED <<ret, lib_result, call_log, n, x0, candidate, t, rstep, dir, base_window,
                   prime_out, lastTest, genVars, waveVars, trialVars>>

\* z5d_cleanup, lines 48-53
Z5dCleanup ==
    /\ LibCall
    /\ z5d_initialized' = 0
    /\ UNCHANGED <<ret, lib_result, call_log, n, x0, candidate, t, rstep, dir, base_window,
                   prime_out, lastTest, genVars, waveVars, trialVars>>

\* the record a prediction call leaves in the log; wrote is what the call
\* stored into the caller's record, << >> when it stored nothing
CallEntry(fn, nn, precision, r) ==
    [fn |-> fn, n |-> nn, precision |-> precision, ret |-> r.ret,
     wrote |-> IF nn = 0 \/ r.ret # 0 THEN << >> ELSE <<r.result>>,
     initialized_before |-> z5d_initialized]

\* a call of z5d_predict_nth_prime_ex
Z5dPredictNthPrimeEx ==
    /\ LibCall
    /\ \E nn \in LibIndexInputs : \E precision \in LibPrecisionInputs :
       \E r \in {z5d_predict_nth_prime_ex(lib_result, nn, precision, z5d_initialized)} :
           /\ ret' = r.ret
           /\ lib_result' = r.result
           /\ z5d_initialized' = r.z5d_initialized
           /\ call_log' = Append(call_log, CallEntry("ex", nn, precision, r))
    /\ UNCHANGED <<n, x0, candidate, t, rstep, dir, base_window, prime_out, lastTest,
                   genVars, waveVars, trialVars>>

\* a call of z5d_predict_nth_prime
Z5dPredictNthPrime ==
    /\ LibCall
    /\ \E nn \in LibIndexInputs :
       \E r \in {z5d_predict_nth_prime(lib_result, nn, z5d_initialized)} :
           /\ ret' = r.ret
           /\ lib_result' = r.result
           /\ z5d_initialized' = r.z5d_initialized
           /\ call_log' = Append(call_log, CallEntry("default", nn, Z5D_DEFAULT_PRECISION, r))
    /\ UNCHANGED <<n, x0, candidate, t, rstep, dir, base_window, prime_out, lastTest,
                   genVars, waveVars, trialVars>>

(* ------------------------------------------------------------------ *)
(* Specification                                                        *)
(* ------------------------------------------------------------------ *)
Next ==
    \/ Z5dPredictNthPrimeMpz
    \/ RefineQuick
    \/ RefineLocalStep
    \/ RefineForwardStep
    \/ Z5dInit
    \/ Z5dCleanup
    \/ Z5dPredictNthPrimeEx
    \/ Z5dPredictNthPrime
    \/ GeneratorMain
    \/ NextPrimeFromAlign
    \/ NextPrimeFromTest
    \/ GeneratorEmit
    \/ DetectMersenne
    \/ TrialDivision
    \/ SnapTo6kPm1
    \/ WaveMain
    \/ AutoTuneIterate
    \/ AutoTuneScanSpins
    \/ AutoTuneFinish
    \/ ManualScan
    \/ WaveOutput

Spec == Init /\ [][Next]_vars

\* an operation, once entered, is sequential code that keeps running; whether
\* and when an operation is entered is the caller's choice
FairSpec == Spec /\ WF_vars(pc # "idle" /\ Next)

\* the tabulated primality answers cover every large value the model tests
OracleDomainOK ==
    /\ InOracleDomain(lastTest.v)
    /\ InOracleDomain(prime_out)
    /\ InOracleDomain(out)


(* ------------------------------------------------------------------ *)
(* Properties                                                           *)
(* ------------------------------------------------------------------ *)
InRefine == prog \in {"predict", "refine"}

\* refine_to_prime has been entered (the snapped candidate is at least 5)
RefineRan == InRefine /\ candidate # BigZero

\* C1: every value refine_to_prime writes to its output has passed the
\* small-prime presieve and both probabilistic test calls (25 and 50 rounds),
\* on the quick-check, local-search and forward-scan paths alike; nothing is
\* written before a candidate has passed all three.
C1_OutputPassedAllChecks ==
    /\ (RefineRan /\ pc = "done") =>
          /\ lastTest.v = prime_out
          /\ lastTest.sieve = "pass" /\ lastTest.pp25 = "pass" /\ lastTest.pp50 = "pass"
          /\ ~divisible_by_small_prime(prime_out)
          /\ MpzProbabPrime(prime_out, 25)
          /\ MpzProbabPrime(prime_out, 50)
    /\ (InRefine /\ pc \in {"refine", "local", "forward"}) => prime_out = BigZero

\* the forward scan returned 461690510543 after the windowed search found nothing
C1_Witness ==
    /\ prog = "refine" /\ pc = "done"
    /\ rstep > base_window /\ base_window = MinBaseWindow
    /\ prime_out = GapHigh

IsPm1Mod6(b) == BigFdivUi(b, 6) \in {1, 5}

\* the least integer above b congruent to +1 or -1 mod 6
NextPm1Above(b) ==
    LET d == CHOOSE e \in 1..6 :
                 /\ IsPm1Mod6(BigAddUi(b, e))
                 /\ \A f \in 1..(e - 1) : ~IsPm1Mod6(BigAddUi(b, f))
    IN  BigAddUi(b, d)

PassesPrimalityTest(b) ==
    ~divisible_by_small_prime(b) /\ MpzProbabPrime(b, 25) /\ MpzProbabPrime(b, 50)

C2_ForwardStep ==
    /\ (InRefine /\ pc = "local" /\ pc' = "forward") =>
          (t' = candidate /\ IsPm1Mod6(candidate))
    /\ (InRefine /\ pc = "forward") =>
          /\ t' = NextPm1Above(t)
          /\ (pc' = "done") <=> PassesPrimalityTest(t')
          /\ (pc' = "done") => prime_out' = t'

\* C2: refine_to_prime always terminates; when the quick check and the
\* windowed search fail, the forward scan starts at the snapped estimate and
\* moves to the next integer congruent to +-1 mod 6 each time, skipping none,
\* and returns the first one that passes the primality test.
C2_ForwardScanTerminates ==
    /\ [][C2_ForwardStep]_vars
    /\ [](InRefine => <>(pc = "done"))

\* the forward scan was entered and has returned
C2_Witness ==
    /\ prog = "refine" /\ pc = "done"
    /\ rstep = base_window + 1
    /\ BigCmp(prime_out, candidate) > 0
    /\ lastTest.v = GapHigh

\* regression fixtures: spec section 8, tests/test_known.c, tests/test_medium_scale.c
RegressionFixtures ==
    { <<BigOf(100), BigOf(541)>>, <<BigOf(1000), BigOf(7919)>>,
      <<BigOf(10000), BigOf(104729)>>, <<BigOf(100000), <<299709, 1>>>>,
      << <<0, 1>>, <<485863, 15>> >>, << <<0, 10>>, <<424673, 179>> >>,
      << <<0, 100>>, <<74743, 2038>> >>, << <<0, 1000>>, <<763489, 22801>> >>,
      << <<0, 10000>>, <<800623, 252097>> >>, << <<0, 100000>>, <<302517, 760727, 2>> >>,
      << <<0, 0, 1>>, <<275833, 996224, 29>> >> }

\* the k-th prime, by counting (p_k <= 6k + 1 for the k used here)
NthPrime(k) ==
    CHOOSE p \in 2..(6 * k + 1) :
        IsPrime(p) /\ Cardinality({q \in 2..p : IsPrime(q)}) = k

\* C3: z5d_predict_nth_prime_mpz returns, with code 0, exactly the n-th prime
\* at the regression indices (100 -> 541, 1000 -> 7919, 10000 -> 104729,
\* 10^9 -> 22801763489, and the further pairs of the test grids); at the grid
\* indices 1, 10 and 100 the value is the n-th prime found by counting.
C3_KnownValues ==
    (prog = "predict" /\ pc = "done") =>
        /\ \A f \in RegressionFixtures : (n = f[1]) => (ret = 0 /\ prime_out = f[2])
        /\ (n \in {BigOf(1), BigOf(10), BigOf(100)}) =>
              (ret = 0 /\ prime_out = BigOf(NthPrime(BigToInt(n))))

C3_Witness ==
    /\ prog = "predict" /\ pc = "done" /\ ret = 0
    /\ n = <<0, 1000>> /\ prime_out = <<763489, 22801>>

\* C4: for every index n >= 1 the value returned by z5d_predict_nth_prime_mpz
\* (fast path or prediction plus refinement) is accepted by is_probable_prime.
C4_RoundTrip ==
    (prog = "predict" /\ pc = "done" /\ ret = 0) => is_probable_prime(prime_out)

RECURSIVE LeastPrimeFrom(_)
LeastPrimeFrom(v) == IF IsPrime(v) THEN v ELSE LeastPrimeFrom(v + 1)

\* the c smallest primes >= v, ascending
RECURSIVE PrimesFrom(_, _)
PrimesFrom(v, c) ==
    IF c = 0 THEN << >>
    ELSE LET p == LeastPrimeFrom(v) IN <<p>> \o PrimesFrom(p + 1, c - 1)

MaxOf(a, b) == IF a >= b THEN a ELSE b

\* C5: run with --start s --count c the scanner prints the c smallest primes
\* >= max(s, 3), ascending, none skipped.
C5_SmallestPrimes ==
    (prog = "generator" /\ pc = "exit" /\ ret = 0) =>
        [k \in 1..Len(printed) |-> BigToInt(printed[k][1])]
            = PrimesFrom(MaxOf(BigToInt(arg_start), 3), cfg_count)

Wheel30Residues == {1, 7, 11, 13, 17, 19, 23, 29}

IsMersenneForm(v) == \E p \in 2..(MaxMersenneExp + 1) : v = Pow2(p) - 1

ValidWave == prog = "wave" /\ ValidateConfig(config) = 0 /\ MpfrSetStr(argv.k).ok

SomeScanHitTarget == \E k \in 1..Len(scan_log) : scan_log[k].count = config.target_count

C8_Inv ==
    (ValidWave /\ config.auto_tune = 1) =>
        /\ Len(scan_log) <= config.max_iters
        /\ (pc \in {"output", "exit"}) =>
              /\ result.locked \in {0, 1}
              /\ (result.locked = 1) <=> SomeScanHitTarget
              /\ (result.locked = 1) =>
                    \A k \in 1..(Len(scan_log) - 1) :
                        scan_log[k].count # config.target_count
              /\ (result.locked = 0) <=>
                    (Len(scan_log) = config.max_iters /\ ~SomeScanHitTarget)

\* C8: auto_tune_scan performs at most max_iterations scans and always ends,
\* either LOCKED (exactly when a scan's count equals target_count, that scan
\* being the last one) or EXHAUSTED (exactly when max_iterations scans ran and
\* none hit the target).
C8_LockedOrExhausted ==
    /\ [](C8_Inv)
    /\ []((ValidWave /\ config.auto_tune = 1) => <>(pc = "exit"))

\* C8: auto_tune_scan performs at most max_iterations scans and always ends,
\* LOCKED exactly when the last scan hit the target, EXHAUSTED exactly when
\* max_iterations scans ran without a hit: it never enters a scan that does
\* not return
C8_AlwaysEnds ==
    C8_Inv /\ ((ValidWave /\ config.auto_tune = 1) => pc # "scanning")

\* locked after two adjustments
C8_Witness ==
    /\ ValidWave /\ config.auto_tune = 1 /\ pc = "exit"
    /\ result.locked = 1 /\ Len(scan_log) = 3

AllZeroSoFar == \A k \in 1..Len(scan_log) : scan_log[k].count = 0

\* an expand adjustment of a run that has found no prime so far, target 1
ExpandStep ==
    /\ ValidWave /\ config.auto_tune = 1 /\ config.target_count = 1
    /\ pc = "auto_tune"
    /\ Len(scan_log') = Len(scan_log) + 1
    /\ scan_log'[Len(scan_log')].count = 0
    /\ AllZeroSoFar

\* C9: with target_count = 1, in a run whose scans all find zero primes, every
\* expand adjustment leaves window strictly larger than before, for every
\* initial window > 0 and step > 0.
C9_StrictlyLarger == [][ExpandStep => window' > window]_vars

\* what the expand branch does: window never decreases; it grows exactly
\* when 2 <= window < 10000 and stays when window = 1 or window >= 10000.
ExpandNeverSmaller ==
    [][ExpandStep =>
          /\ window' >= window
          /\ (window >= 2 /\ window < WindowCap) => window' > window
          /\ (window = 1 \/ window >= WindowCap) => window' = window]_vars

\* two expand adjustments have enlarged the window twice
ExpandedTwice ==
    /\ ValidWave /\ config.auto_tune = 1 /\ config.target_count = 1
    /\ Len(scan_log) = 2 /\ AllZeroSoFar
    /\ scan_log[2].window > scan_log[1].window
    /\ window > scan_log[2].window

\* C10: exhausting max_iterations without reaching the target is a non-error
\* outcome: the program completes with status 0 and the result carries
\* locked = false with the final window and step.
C10_ExhaustedIsSuccess ==
    (ValidWave /\ config.auto_tune = 1 /\ pc = "exit" /\ result.locked = 0) =>
        /\ ret = 0
        /\ result.window = window /\ result.step = step

AutoTuneReturned == ValidWave /\ config.auto_tune = 1 /\ pc \in {"output", "exit"}

LastScan == scan_log[Len(scan_log)]

\* C11: on return from auto_tune_scan, locked or exhausted, the reported
\* prime_count is the count of the last scan performed, and a prime is
\* reported exactly when that count is one, being the prime that scan found.
C11_ReportsLastScan ==
    (AutoTuneReturned /\ Len(scan_log) > 0) =>
        /\ result.prime_count = LastScan.count
        /\ (ReportedPrime(result) # << >>) <=> (LastScan.count = 1)
        /\ (LastScan.count = 1) => ReportedPrime(result) = <<LastScan.found[1]>>
ManualReturned == ValidWave /\ config.auto_tune = 0 /\ pc \in {"output", "exit"}

\* C12: manual_scan performs exactly one scan, with the configured window and
\* step, leaves them unmodified, reports iterations = 0, prime_count equal to
\* the scan's count and locked = (count = target_count), and returns success
\* whether or not the count equals the target.
C12_ManualScanOnce ==
    /\ (ValidWave /\ config.auto_tune = 0 /\ pc = "manual_scan") => scan_log = << >>
    /\ (ValidWave /\ config.auto_tune = 0) =>
          (window = config.window /\ step = config.step)
    /\ ManualReturned =>
          /\ Len(scan_log) = 1
          /\ scan_log[1].window = config.window /\ scan_log[1].step = config.step
          /\ result.window = config.window /\ result.step = config.step
          /\ result.iterations = 0
          /\ result.prime_count = scan_log[1].count
          /\ result.locked = (IF scan_log[1].count = config.target_count THEN 1 ELSE 0)
          /\ ret = 0

\* a manual scan that missed the target has returned success
C12_Witness ==
    /\ ManualReturned /\ pc = "exit" /\ ret = 0
    /\ result.locked = 0 /\ scan_log[1].count > config.target_count
    /\ config.target_count = 1

\* the integer a command-line value denotes when read as a signed decimal
TypedInt(s) == MpfrSetStr(s).v

\* a command line whose window or step is zero or negative, whose precision is
\* outside [64, 131072] or whose wheel modulus is neither 30 nor 210
InvalidOptionTyped ==
    \/ TypedInt(argv.window) <= 0
    \/ TypedInt(argv.step) <= 0
    \/ TypedInt(argv.prec) < 64 \/ TypedInt(argv.prec) > 131072
    \/ TypedInt(argv.wheel) \notin {30, 210}

\* C13: a command line with a zero or non-positive window or step, a precision
\* outside [64, 131072] or a wheel modulus other than 30 or 210 ends with
\* status 1 before a prediction is computed or a scan is run, and the
\* configuration holds the values as parsed, no default in their place
C13_InvalidConfigRejected ==
    (prog = "wave" /\ InvalidOptionTyped) =>
        /\ pc = "exit" /\ ret = 1
        /\ scan_log = << >> /\ prediction = 0
        /\ config = ParseOptions(argv)

\* an index that is not a number, or a number below 2
IndexBelowTwo == ~MpfrSetStr(argv.k).ok \/ MpfrSetStr(argv.k).v < 2

\* C14: the wave-knob program given an index that is not a number, zero,
\* negative or otherwise below 2 ends with status 1 before the prediction is
\* computed, and no scan is executed
C14_IndexBelowTwoRejected ==
    (prog = "wave" /\ IndexBelowTwo) =>
        /\ pc = "exit" /\ ret = 1
        /\ scan_log = << >>

\* a step in which z5d_predict_nth_prime or z5d_predict_nth_prime_ex is called
PredictCallStep == prog' = "library" /\ Len(call_log') = Len(call_log) + 1

\* a step in which z5d_predict_nth_prime_mpz is called
MpzCallStep == pc = "idle" /\ prog' = "predict"

\* C15: called with n = 0, z5d_predict_nth_prime, z5d_predict_nth_prime_ex and
\* z5d_predict_nth_prime_mpz return a negative code at once and leave the
\* caller's result record / output integer and the flag z5d_initialized as
\* they were; called with n >= 1 they return 0
C15_ZeroIndexRejected ==
    /\ [][/\ PredictCallStep =>
               IF call_log'[Len(call_log')].n = 0
               THEN /\ ret' < 0
                    /\ lib_result' = lib_result
                    /\ z5d_initialized' = z5d_initialized
               ELSE ret' = 0
          /\ (MpzCallStep /\ n' = BigZero) =>
               /\ pc' = "done" /\ ret' < 0
               /\ prime_out' = prime_out
               /\ z5d_initialized' = z5d_initialized]_vars
    /\ []((prog = "predict" /\ pc = "done" /\ n # BigZero) => ret = 0)

\* a prediction of index 100, then z5d_cleanup, then a call with index 0 that
\* left the estimate 506 in the record and the library uninitialised
C15_Witness ==
    /\ prog = "library" /\ Len(call_log) = 2 /\ lib_calls = 3
    /\ call_log[1].n = 100 /\ call_log[1].ret = 0
    /\ call_log[2].n = 0 /\ call_log[2].initialized_before = 0 /\ ret = -1
    /\ lib_result.predicted_prime = MpfrNum(506) /\ lib_result.converged = 1
    /\ z5d_initialized = 0

test_cases ==
    << [n |-> 100, expected_prime |-> 541],
       [n |-> 1000, expected_prime |-> 7919],
       [n |-> 10000, expected_prime |-> 104729],
       [n |-> 100000, expected_prime |-> 1299709],
       [n |-> 1000000, expected_prime |-> 15485863],
       [n |-> 10000000, expected_prime |-> 179424673],
       [n |-> 100000000, expected_prime |-> 2038074743] >>

\* tests/test_known.c, line 73: fabs(rel_err_pct) < 1.0, that is
\* 100 |predicted - expected| < expected
RelErrBelowOnePercent(predicted, expected) ==
    Abs(predicted - expected) <= (expected - 1) \div 100

\* C17: for every pair (n, p_n) of the test grid the closed-form prediction
\* of z5d_predict_nth_prime_ex is a finite value within 1% of p_n
C17_WithinTolerance ==
    \A a \in 1..Len(call_log) : \A k \in 1..Len(test_cases) :
        (call_log[a].n = test_cases[k].n) =>
            /\ call_log[a].ret = 0
            /\ call_log[a].wrote[1].predicted_prime.finite
            /\ RelErrBelowOnePercent(call_log[a].wrote[1].predicted_prime.v,
                                     test_cases[k].expected_prime)

\* the step of next_prime_from that aligns the start
AlignStep == prog = "generator" /\ pc = "next_prime_from" /\ pc' = "test"

\* the least m >= c with m mod 30 in {1, 7, 11, 13, 17, 19, 23, 29}
LeastWheelAtLeast(c) ==
    BigAddUi(c, CHOOSE d \in 0..29 :
                    /\ (BigFdivUi(c, 30) + d) % 30 \in Wheel30Residues
                    /\ \A e \in 0..(d - 1) : (BigFdivUi(c, 30) + e) % 30 \notin Wheel30Residues)

\* C18: align_wheel30_candidate yields the least m >= start whose residue
\* modulo 30 is one of 1, 7, 11, 13, 17, 19, 23, 29; it never moves backward
\* and leaves an aligned start as it is
C18_AlignLeastResidue ==
    [][AlignStep =>
          /\ out' = LeastWheelAtLeast(main_candidate)
          /\ BigCmp(out', main_candidate) >= 0
          /\ (BigFdivUi(main_candidate, 30) \in Wheel30Residues) => out' = main_candidate]_vars

\* a step of next_prime_from that advances the candidate
AdvanceStep == prog = "generator" /\ pc = "test" /\ pc' = "test"

\* C19: next_prime_from never moves backward: the aligned candidate and the
\* value returned are >= start, and every wheel advance makes the candidate
\* strictly larger, so that no candidate is tested twice
C19_ForwardOnly ==
    /\ [][/\ AlignStep => BigCmp(out', main_candidate) >= 0
          /\ AdvanceStep => BigCmp(out', out) > 0]_vars
    /\ []((prog = "generator" /\ pc \in {"test", "found"}) => BigCmp(out, main_candidate) >= 0)

\* start 2805 was aligned to 2807 and advanced over 2809 to the candidate 2813
C19_Witness ==
    /\ prog = "generator" /\ pc = "test"
    /\ main_candidate = BigOf(2805) /\ out = BigOf(2813)

\* the trial primes of the two stages, as sets
LucasTrialPrimes == {lucas_small_primes[k] : k \in 1..Len(lucas_small_primes)}
PresieveTrialPrimes == {SMALL_PRIMES[k] : k \in 1..Len(SMALL_PRIMES)}

\* C20: for n >= 2 each trial-division stage accepts n when n is one of its
\* trial primes and rejects n when a trial prime divides n without being n:
\* lucas_prefilter_gmp (7..47) returns 1 / 0, divisible_by_small_prime
\* (3..97) returns 0 / 1
C20_TrialDivision ==
    (prog = "trial" /\ pc = "done") =>
        LET v == BigToInt(trial_in)
        IN  /\ \A p \in LucasTrialPrimes :
                  /\ (v = p) => trial_lucas
                  /\ (v % p = 0 /\ v # p) => ~trial_lucas
            /\ \A p \in PresieveTrialPrimes :
                  /\ (v = p) => ~trial_presieve
                  /\ (v % p = 0 /\ v # p) => trial_presieve

\* 47 is a trial prime of both stages and was accepted by both
C20_Witness ==
    /\ prog = "trial" /\ pc = "done"
    /\ trial_in = BigOf(47) /\ trial_lucas /\ ~trial_presieve

\* the least d >= 0 for which residue r moved by d in the direction of sgn
\* is 1 or 5 modulo 6
SnapDistance(r, sgn) ==
    CHOOSE d \in 0..5 :
        /\ (r + sgn * d) % 6 \in {1, 5}
        /\ \A e \in 0..(d - 1) : (r + sgn * e) % 6 \notin {1, 5}

\* the rounded estimate given to refine_to_prime is not above the candidate
NotBelowEstimate(c, x) == x.neg \/ BigCmp(c, x.mag) >= 0

\* C21: snap_to_6k_pm1(n, dir) leaves n congruent to 1 or 5 modulo 6: forward
\* it is the least such value >= n, backward the greatest such value <= n, and
\* a value already congruent to 1 or 5 is unchanged; the starting candidate of
\* refine_to_prime is odd, >= 3, congruent to 1 or 5 modulo 6 and not below
\* the rounded estimate
C21_SnapNearestResidue ==
    /\ (prog = "snap" /\ pc = "done") =>
          /\ BigFdivUi(snap_out, 6) \in {1, 5}
          /\ snap_dir >= 0 =>
                snap_out = BigAddUi(snap_n, SnapDistance(BigFdivUi(snap_n, 6), 1))
          /\ snap_dir < 0 =>
                snap_n = BigAddUi(snap_out, SnapDistance(BigFdivUi(snap_n, 6), -1))
          /\ (BigFdivUi(snap_n, 6) \in {1, 5}) => snap_out = snap_n
          /\ snap_to_6k_pm1(snap_out, snap_dir) = snap_out
    /\ RefineRan =>
          /\ ~BigEven(candidate)
          /\ BigCmpUi(candidate, 3) >= 0
          /\ BigFdivUi(candidate, 6) \in {1, 5}
          /\ NotBelowEstimate(candidate, x0)

\* 1000000 was snapped backward over the limb boundary to 999997
C21_Witness ==
    /\ prog = "snap" /\ pc = "done"
    /\ snap_n = <<0, 1>> /\ snap_dir = -1 /\ snap_out = BigOf(999997)

\* auto_tune_scan is running or has returned
InAutoTune ==
    ValidWave /\ config.auto_tune = 1 /\ pc \in {"auto_tune", "scanning", "output", "exit"}

\* C22: in every state auto_tune_scan reaches from an accepted configuration
\* (window > 0, step > 0), window > 0 and step >= 1 as unsigned values
C22_WindowStepPositive ==
    InAutoTune => (ULongLt(0, window) /\ ULongLe(1, step))

\* a pass of the tuning loop whose scan missed the target
AdjustStep ==
    /\ InAutoTune /\ pc = "auto_tune"
    /\ Len(scan_log') = Len(scan_log) + 1
    /\ scan_log'[Len(scan_log')].count # config.target_count

\* such a pass with count = 0: the expand branch
ExpandAdjust == AdjustStep /\ scan_log'[Len(scan_log')].count = 0

\* C23: after a scan with count = 0 and target_count # 0, a window below 10000
\* becomes floor(3 * window / 2) with step unchanged; otherwise window is
\* unchanged and step becomes max(step - 1, 1); step never drops below 1
C23_ExpandStep ==
    [][ExpandAdjust =>
          /\ IF ULongLt(window, 10000)
             THEN window' = (3 * window) \div 2 /\ step' = step
             ELSE /\ window' = window
                  /\ step' = IF ULongLt(1, step - 1) THEN step - 1 ELSE 1
          /\ ULongLe(1, step')]_vars

\* at the bound 10000 the step 20000 was reduced to 19999
C23_Witness ==
    /\ InAutoTune /\ Len(scan_log) = 1 /\ scan_log[1].count = 0
    /\ config.target_count # 0
    /\ config.window = 10000 /\ config.step = 20000
    /\ window = 10000 /\ step = 19999

\* such a pass with count > target_count: the contract branch
ContractAdjust == AdjustStep /\ scan_log'[Len(scan_log')].count > config.target_count

\* window / step has become smaller: w2 / s2 < w / s for unsigned values
RatioDecreases(w, s, w2, s2) ==
    /\ s2 # 0
    /\ IF s >= 0 /\ s2 >= 0 THEN w2 * s < w * s2 ELSE (w2 = w /\ ULongLt(s, s2))

\* C24: after a scan with count > target_count, a window above 2 * step
\* becomes floor(2 * window / 3) with step unchanged; otherwise window is
\* unchanged and step increases by 1; either way window / step strictly
\* decreases
C24_ContractStep ==
    [][ContractAdjust =>
          /\ IF step >= 0 /\ ULongLt(2 * step, window)
             THEN window' = (2 * window) \div 3 /\ step' = step
             ELSE window' = window /\ step' = step + 1 /\ step # -1
          /\ RatioDecreases(window, step, window', step')]_vars

\* C25: the i-th scan performed (i = 0, 1, 2, ...) uses the one residue
\* offsets[i mod |wheel|] of the configured wheel, whose residue list is
\* ascending: its centre is the prediction moved forward by less than the
\* modulus to that residue, and every candidate it tests has that residue
C25_ResidueRotates ==
    ValidWave =>
        \E wheel \in {get_wheel(config.wheel_mod)} :
            /\ \A a \in 1..(Len(wheel.offsets) - 1) : wheel.offsets[a] < wheel.offsets[a + 1]
            /\ \A m \in 1..Len(scan_log) :
                  \E r \in {wheel.offsets[((m - 1) % Len(wheel.offsets)) + 1]} :
                      /\ scan_log[m].wheel_index = m - 1
                      /\ scan_log[m].center % wheel.modulus = r
                      /\ scan_log[m].center >= prediction
                      /\ scan_log[m].center - prediction < wheel.modulus
                      /\ \A c \in 1..Len(scan_log[m].tested) :
                            scan_log[m].tested[c] % wheel.modulus = r

\* nine scans on wheel 30: the ninth is back at the first residue, 1
C25_Witness ==
    /\ ValidWave /\ config.wheel_mod = 30 /\ Len(scan_log) = 9
    /\ scan_log[8].center % 30 = 29 /\ scan_log[9].center % 30 = 1
    /\ scan_log[9].tested = <<scan_log[9].center>>

\* the positions at which a scan tested the value c
TestsOf(e, c) == {a \in 1..Len(e.tested) : e.tested[a] = c}

\* C26: within one scan every candidate tested lies within distance window of
\* the aligned centre, at a distance that is a multiple of step, on both sides
\* of the centre alike; the centre itself is tested once; and every candidate
\* is congruent to the selected residue modulo the wheel modulus
C26_ScanWithinWindow ==
    ValidWave =>
        \A m \in 1..Len(scan_log) :
            \E e \in {scan_log[m]} : \E wheel \in {get_wheel(config.wheel_mod)} :
                /\ \A a \in 1..Len(e.tested) :
                      /\ Abs(e.tested[a] - e.center) <= e.window
                      /\ e.step > 0 => Abs(e.tested[a] - e.center) % e.step = 0
                      /\ e.tested[a] % wheel.modulus = e.center % wheel.modulus
                /\ Cardinality(TestsOf(e, e.center)) = 1

\* C27: a scan never collects more than the 10 primes its buffer holds: the
\* primes stored are as many as the count returned, the count lies in 0..10,
\* and once the count reaches 10 no further candidate is tested
C27_CountWithinBuffer ==
    prog = "wave" =>
        \A m \in 1..Len(scan_log) :
            \E e \in {scan_log[m]} :
                /\ e.count \in 0..MaxPrimes
                /\ Len(e.found) = e.count
                /\ e.count = MaxPrimes =>
                      e.tested[Len(e.tested)] = e.found[MaxPrimes]

\* a scan filled the buffer with a forward candidate and left the backward
\* candidate of that pass untested
C27_Witness ==
    /\ ValidWave
    /\ \E m \in 1..Len(scan_log) :
           \E e \in {scan_log[m]} :
               /\ e.count = MaxPrimes
               /\ e.found[MaxPrimes] > e.center
               /\ e.center - (e.found[MaxPrimes] - e.center) > 3

\* the candidates a scan that runs through its whole window visits
ScanCandidates(e, modulus) ==
    LET offsets == IF e.step = 0 \/ ULongLt(e.window, e.step) THEN {0}
                   ELSE {j * e.step : j \in 0..(e.window \div e.step)}
    IN  {e.center + o * modulus : o \in offsets} \cup {e.center - o * modulus : o \in offsets}

\* the primality tests the scans of a log made
TestsMade(log) ==
    LET Sum[m \in 0..Len(log)] == IF m = 0 THEN 0 ELSE Sum[m - 1] + Len(log[m].tested)
    IN  Sum[Len(log)]

\* the call counter against the tests made, outside a scan that does not return
CallsCounted ==
    (prog = "wave" /\ pc # "scanning") =>
        /\ g_total_mr_calls = TestsMade(scan_log)
        /\ \A m \in 1..Len(scan_log) :
               \E e \in {scan_log[m]} :
                   /\ e.calls = Len(e.tested)
                   /\ \A a \in 1..Len(e.tested) : e.tested[a] > 3
                   /\ (e.count < MaxPrimes /\ e.step # 0) =>
                          Len(e.tested) =
                              Cardinality({c \in ScanCandidates(e, get_wheel(config.wheel_mod).modulus) :
                                             c > 3})
        /\ pc \in {"output", "exit"} => result.mr_calls = g_total_mr_calls

\* a step that makes primality tests
CallsStep ==
    g_total_mr_calls' # g_total_mr_calls =>
        /\ g_total_mr_calls' > g_total_mr_calls
        /\ Len(scan_log') = Len(scan_log) + 1
        /\ g_total_mr_calls' - g_total_mr_calls = Len(scan_log'[Len(scan_log')].tested)
        /\ wheel_index' = wheel_index + 1
        /\ config.auto_tune = 0 => UNCHANGED <<window, step, iteration>>
        /\ config.auto_tune = 1 =>
               \E e \in {scan_log'[Len(scan_log')]} :
                   /\ <<window', step'>> \in
                          {<<window, step>>, Adjust(window, step, e.count, config.target_count)}
                   /\ iteration' \in {iteration, iteration + 1}

\* C28: the reported verification-call total is the number of primality tests
\* made: each tested candidate above 3 adds exactly one, candidates up to 3 are
\* not tested and add nothing, the counter never decreases, and the tests of a
\* scan leave window, step and iteration to the tuning policy and the residue
\* index to its single advance per scan
C28_CallsCounted == [](CallsCounted) /\ [][CallsStep /\ g_total_mr_calls' >= g_total_mr_calls]_vars

\* a finished run of several scans that tested composites and skipped a
\* candidate not above 3
C28_Witness ==
    /\ ValidWave /\ pc = "exit"
    /\ Len(scan_log) >= 2
    /\ result.mr_calls > result.prime_count
    /\ result.mr_calls = TestsMade(scan_log)
    /\ \E m \in 1..Len(scan_log) :
           \E e \in {scan_log[m]} :
               /\ e.count < MaxPrimes /\ e.step # 0
               /\ \E c \in ScanCandidates(e, get_wheel(config.wheel_mod).modulus) : c <= 3

\* a pass of the tuning loop whose scan found some primes, fewer than the target
BelowTargetStep ==
    /\ prog = "wave" /\ pc = "auto_tune"
    /\ Len(scan_log') = Len(scan_log) + 1
    /\ scan_log'[Len(scan_log')].count > 0
    /\ scan_log'[Len(scan_log')].count < config.target_count

\* what the scan after such a pass runs with
SameParametersNextResidue ==
    (prog = "wave" /\ config.auto_tune = 1) =>
        \A m \in 1..(Len(scan_log) - 1) :
            (scan_log[m].count > 0 /\ scan_log[m].count < config.target_count) =>
                /\ scan_log[m + 1].window = scan_log[m].window
                /\ scan_log[m + 1].step = scan_log[m].step
                /\ scan_log[m + 1].wheel_index = scan_log[m].wheel_index + 1

\* C29: a pass of auto_tune_scan whose scan finds a count with
\* 0 < count < target_count leaves window and step unchanged and advances only
\* the iteration counter and the residue index, so the next scan uses the same
\* window and step with the next wheel residue
C29_BelowTargetKeeps ==
    /\ [][BelowTargetStep =>
            /\ window' = window /\ step' = step
            /\ iteration' = iteration + 1
            /\ wheel_index' = wheel_index + 1
            /\ UNCHANGED <<found_target, result, config, prediction, pc>>]_vars
    /\ [](SameParametersNextResidue)

\* a scan that found one prime of a target of three, followed by a scan with
\* the same window and step
C29_Witness ==
    /\ ValidWave /\ config.auto_tune = 1 /\ config.target_count = 3
    /\ \E m \in 1..(Len(scan_log) - 1) :
           /\ scan_log[m].count = 1
           /\ scan_log[m + 1].window = scan_log[m].window
           /\ scan_log[m + 1].step = scan_log[m].step
           /\ scan_log[m + 1].center # scan_log[m].center

\* C30: when auto_tune_scan ends locked, the reported window, step and ratio
\* are those of the scan that reached the target count and the reported
\* iteration count is the number of scans performed minus one; when it ends
\* exhausted, the reported iteration count is max_iters
C30_ReportedTuning ==
    (ValidWave /\ config.auto_tune = 1 /\ pc \in {"output", "exit"}) =>
        IF result.locked = 1
        THEN /\ Len(scan_log) >= 1
             /\ \E e \in {scan_log[Len(scan_log)]} :
                    /\ e.count = config.target_count
                    /\ result.window = e.window
                    /\ result.step = e.step
                    /\ result.ratio = <<e.window, e.step>>
             /\ result.iterations = Len(scan_log) - 1
             /\ ret = 0
        ELSE /\ result.iterations = config.max_iters
             /\ ret = -1

\* a run that locked after adjusting the window it was started with
C30_Witness ==
    /\ ValidWave /\ config.auto_tune = 1 /\ pc = "exit"
    /\ result.locked = 1
    /\ result.iterations >= 1
    /\ result.window # config.window
    /\ result.iterations = Len(scan_log) - 1
====
